---- MODULE Spec2Model ----
(***************************************************************************)
(* TPMFactoryUpd: the firmware update command flow                         *)
(* (CommandFlow_TpmUpdate.c, CommandFlow_Tpm12ClearOwnership.c).           *)
(*                                                                         *)
(* Strings (paths, version names, config values) are sequences of tokens,  *)
(* one token per character where the code indexes characters.  Return      *)
(* codes are their names; a code returned by the chip carries the reserved *)
(* mask bit and is written "<TPM code>|RC_TPM_MASK".                       *)
(***************************************************************************)
EXTENDS Integers, Sequences, FiniteSets, TLC

VARIABLES
    upd,        \* the IfxUpdate record the phase functions work on
    props,      \* PropertyStorage: property name -> value (a partial function)
    s_fUpdateThroughConfigFile,
    rundata,    \* the file TPMFactoryUpd_RunData.txt: [exists, content]
    chip,       \* the chip: [bootLoader, sessions (live session handles)]
    started,    \* history of the host: update-started callbacks and run data file operations
    phases,     \* history of the record: the phases ("updatable check", "prepare") that ran on it
    clear,      \* the IfxTpm12ClearOwnership record
    ret,        \* history: what the last call did (envelope value, commands, the environment's answers)
    pc,         \* position of the tool's controller in a run
    tpmio       \* the device channel (TpmIO): g_fConnected, the backend, the process's privileges

vars == <<upd, props, s_fUpdateThroughConfigFile, rundata, chip, started, phases, clear, ret, pc, tpmio>>

----------------------------------------------------------------------------
(* Bounds *)

\* Session slots of the chip: handles are 1..MaxSessions
MaxSessions == 2
\* Largest value of the chip's remaining-updates counter
MaxRemainingUpdates == 1
\* Number of data blocks of a firmware image
NumBlocks == 2

----------------------------------------------------------------------------
(* Values *)

Handles == 1..MaxSessions

NoFile == [exists |-> FALSE, content |-> <<>>]

\* TPM_STATE attribute sets FirmwareUpdate_CalculateState produces (spec 4.5:
\* the first matching classification rule assigns its attributes and stops)
NoAttribs ==
    [infineon |-> FALSE, bootLoader |-> FALSE, unsupportedChip |-> FALSE,
     tpm12 |-> FALSE, tpm12owner |-> FALSE, tpm12DeferredPhysicalPresence |-> FALSE,
     tpm20 |-> FALSE, tpm20InFailureMode |-> FALSE, tpm20restartRequired |-> FALSE]

TpmStates ==
    {NoAttribs,
     [NoAttribs EXCEPT !.infineon = TRUE, !.bootLoader = TRUE],
     [NoAttribs EXCEPT !.infineon = TRUE, !.unsupportedChip = TRUE]}
    \cup {[NoAttribs EXCEPT !.infineon = TRUE, !.tpm12 = TRUE, !.tpm12owner = o,
                            !.tpm12DeferredPhysicalPresence = d] : o \in BOOLEAN, d \in BOOLEAN}
    \cup {[NoAttribs EXCEPT !.infineon = TRUE, !.tpm20 = TRUE, !.tpm20InFailureMode = f,
                            !.tpm20restartRequired = r] : f \in BOOLEAN, r \in BOOLEAN}

\* Firmware version names of the chips: 4.x and 6.x are TPM1.2, 5.x and 7.x are TPM2.0
\* (4/5 on the LPC bus, 6/7 on the SPI bus); 9.x is a version the tool does not know
VersionNames ==
    {<<"4", ".", "0">>, <<"5", ".", "0">>, <<"6", ".", "0">>, <<"7", ".", "0">>, <<"9", ".", "0">>}

\* What the state probe reports for one run: attributes, version name (an LPC
\* name of the chip's family) and remaining updates
Probe(a, remaining) ==
    [attribs |-> a,
     version |-> IF a.tpm12 THEN <<"4", ".", "0">> ELSE IF a.tpm20 THEN <<"5", ".", "0">> ELSE <<>>,
     remaining |-> remaining]

\* The probes of the runs: every attribute set with updates remaining, and the
\* plain TPM1.2 and TPM2.0 chips with the update counter used up
Probes ==
    {Probe(a, r) : a \in TpmStates, r \in 1..MaxRemainingUpdates}
    \cup {Probe([NoAttribs EXCEPT !.infineon = TRUE, !.tpm12 = TRUE], 0),
          Probe([NoAttribs EXCEPT !.infineon = TRUE, !.tpm20 = TRUE], 0)}

UpdateTypes ==
    {"UPDATE_TYPE_TPM12_DEFERREDPP", "UPDATE_TYPE_TPM12_TAKEOWNERSHIP",
     "UPDATE_TYPE_TPM20_EMPTYPLATFORMAUTH", "UPDATE_TYPE_CONFIG_FILE"}

\* Paths given on the command line
FirmwarePaths == {<<"f">>}
ConfigPaths == {<<"d", "/", "c">>}

\* The operation requests the command line parser accepts (spec 6, CLI surface):
\* -update tpm* needs -firmware, -update config-file needs -config
UpdateRequests ==
    {[updateType |-> t, firmware |-> f, config |-> <<>>, dryRun |-> d] :
        t \in UpdateTypes \ {"UPDATE_TYPE_CONFIG_FILE"}, f \in FirmwarePaths, d \in BOOLEAN}
    \cup {[updateType |-> "UPDATE_TYPE_CONFIG_FILE", firmware |-> <<>>, config |-> c, dryRun |-> d] :
        c \in ConfigPaths, d \in BOOLEAN}

\* -tpm12-clearownership: no update type, no paths
ClearOwnershipRequest ==
    [updateType |-> "UPDATE_TYPE_NONE", firmware |-> <<>>, config |-> <<>>, dryRun |-> FALSE]

Requests == UpdateRequests \cup {ClearOwnershipRequest}

\* The property bag as the command line parser leaves it
CliProperties(req) ==
    (IF req.updateType # "UPDATE_TYPE_NONE" THEN [k \in {"PROPERTY_UPDATE_TYPE"} |-> req.updateType]
     ELSE <<>>)
    @@ (IF req.firmware # <<>> THEN [k \in {"PROPERTY_FIRMWARE_PATH"} |-> req.firmware] ELSE <<>>)
    @@ (IF req.config # <<>> THEN [k \in {"PROPERTY_CONFIG_FILE_PATH"} |-> req.config] ELSE <<>>)
    @@ (IF req.dryRun THEN [k \in {"PROPERTY_DRY_RUN"} |-> TRUE] ELSE <<>>)

\* The IfxUpdate record as the controller sets it up from the probed state
InitialUpdate(probe) ==
    [unSubType |-> "STRUCT_SUBTYPE_NONE",
     unReturnCode |-> "RC_E_FAIL",
     unNewFirmwareValid |-> "GENERIC_TRISTATE_STATE_NA",
     hPolicySession |-> 0,
     sTpmState |-> probe.attribs,
     unRemainingUpdates |-> probe.remaining,
     wszVersionName |-> probe.version,
     rgbFirmwareImage |-> <<>>,
     fValid |-> FALSE,
     unErrorDetails |-> "RC_SUCCESS",
     wszNewFirmwareVersion |-> <<>>,
     bTargetFamily |-> "none",
     wszUsedFirmwareImage |-> <<>>]

\* The device channel of a new process: not connected, the backend not initialized,
\* the effective user and group not yet dropped to the real ones.  arm: the build
\* is for ARM (no memory-mapped access); window: history, a Connect succeeded and
\* Disconnect was not called since.
IoInitial ==
    [g_fConnected |-> FALSE, backendOpen |-> FALSE, euidDropped |-> FALSE, egidDropped |-> FALSE,
     arm |-> FALSE, window |-> FALSE]

\* The history record of a call: the function, its envelope return value, and what
\* the call did.  The call actions take a parameter: whether the history keeps the
\* environment's answers (env).
Ret(fn, rv) ==
    [fn |-> fn, rv |-> rv,
     imageChecked |-> FALSE,              \* the image was loaded and checked against the chip
     cmds |-> <<>>,                       \* TPM commands sent, in order
     events |-> <<>>,                     \* sleeps and progress callbacks, in order
     transfer |-> FALSE,                  \* FirmwareUpdate_UpdateImage was called
     transferRc |-> "RC_SUCCESS",         \* ... and returned this
     callback |-> FALSE,                  \* the update-started callback fired
     markerAfterTransfer |-> NoFile,      \* the run data file when UpdateImage returned
     io |-> "written",                    \* what happened to the file in the callback
     removeFailed |-> FALSE,              \* FileIO_Remove was called and failed
     flushes |-> <<>>,                    \* handles passed to TSS_TPM2_FlushContext
     flushFailed |-> FALSE,
     opened |-> {},                       \* session handles the call's commands opened
     data |-> <<>>,                       \* the IfxFirmwareUpdateData passed to the transfer
     env |-> <<>>]                        \* what the environment answered in the steps the call reached

----------------------------------------------------------------------------
(* Return values: unsigned 32 bit numbers, written as <<upper 16 bits, lower 16 bits>> *)

RECURSIVE Xor16(_, _, _)
Xor16(a, b, n) ==
    IF n = 0 THEN 0 ELSE (((a % 2) + (b % 2)) % 2) + 2 * Xor16(a \div 2, b \div 2, n - 1)

RECURSIVE Or16(_, _, _)
Or16(a, b, n) ==
    IF n = 0 THEN 0
    ELSE (IF (a % 2) = 1 \/ (b % 2) = 1 THEN 1 ELSE 0) + 2 * Or16(a \div 2, b \div 2, n - 1)

\* a ^ b and a | b on 32 bit numbers
Xor32(a, b) == <<Xor16(a[1], b[1], 16), Xor16(a[2], b[2], 16)>>
Or32(a, b) == <<Or16(a[1], b[1], 16), Or16(a[2], b[2], 16)>>

\* The mask of the return values that carry a code of the chip (0xE0280000), and
\* the TPM1.2 codes the flow looks for (TPM_BASE + n)
RC_TPM_MASK == <<57384, 0>>
TPM_AUTHFAIL == <<0, 1>>
TPM_BAD_PARAMETER == <<0, 3>>
TPM_DEACTIVATED == <<0, 6>>
TPM_DISABLED == <<0, 7>>
TPM_FAIL == <<0, 9>>
TPM_RC_FAILURE == <<0, 257>>

\* The numbers of the tool's own return values (0xE0295nnn, RC_SUCCESS is 0)
ToolValue ==
    [RC_SUCCESS |-> <<0, 0>>,
     RC_E_FAIL |-> <<57385, 20481>>,
     RC_E_INTERNAL |-> <<57385, 20483>>,
     RC_E_BAD_PARAMETER |-> <<57385, 20485>>,
     RC_E_TPM12_DEFERREDPP_REQUIRED |-> <<57385, 21767>>,
     RC_E_TPM12_DISABLED_DEACTIVATED |-> <<57385, 21768>>,
     RC_E_TPM12_INVALID_OWNERAUTH |-> <<57385, 21776>>]

\* unReturnValue = RC_TPM_MASK | responseCode: the return value that carries a chip code
ChipValue ==
    [n \in {"TPM_AUTHFAIL|RC_TPM_MASK", "TPM_BAD_PARAMETER|RC_TPM_MASK", "TPM_DEACTIVATED|RC_TPM_MASK",
            "TPM_DISABLED|RC_TPM_MASK", "TPM_FAIL|RC_TPM_MASK", "TPM_RC_FAILURE|RC_TPM_MASK"} |->
        Or32(RC_TPM_MASK,
             CASE n = "TPM_AUTHFAIL|RC_TPM_MASK" -> TPM_AUTHFAIL
               [] n = "TPM_BAD_PARAMETER|RC_TPM_MASK" -> TPM_BAD_PARAMETER
               [] n = "TPM_DEACTIVATED|RC_TPM_MASK" -> TPM_DEACTIVATED
               [] n = "TPM_DISABLED|RC_TPM_MASK" -> TPM_DISABLED
               [] n = "TPM_FAIL|RC_TPM_MASK" -> TPM_FAIL
               [] n = "TPM_RC_FAILURE|RC_TPM_MASK" -> TPM_RC_FAILURE)]

\* The number behind the name of a return value
ReturnValue == ToolValue @@ ChipValue

\* (unReturnValue ^ RC_TPM_MASK), for every return value
WithoutTpmMask == [n \in DOMAIN ReturnValue |-> Xor32(ReturnValue[n], RC_TPM_MASK)]

\* code == (unReturnValue ^ RC_TPM_MASK)
IsTpmCode(unReturnValue, code) == code = WithoutTpmMask[unReturnValue]

----------------------------------------------------------------------------
\* The host's history: an update-started callback fired and no UpdateFirmware returned
\* success since (any); the same for callbacks of a config-file update that had
\* selected its image (config); opening or removing the run data file failed once
NotStarted == [any |-> FALSE, config |-> FALSE, failed |-> FALSE]

(* Initial state: a host on which the tool never ran, before the first run *)

Init ==
    /\ upd = InitialUpdate(Probe(NoAttribs, 0))
    /\ props = <<>>
    /\ s_fUpdateThroughConfigFile = FALSE
    /\ rundata = NoFile
    /\ chip = [bootLoader |-> FALSE, sessions |-> {}]
    /\ started = NotStarted
    /\ phases = {}
    /\ clear = [unReturnCode |-> "RC_E_FAIL"]
    /\ ret = Ret("none", "RC_SUCCESS")
    /\ pc = "exit"
    /\ tpmio = IoInitial

\* A run of the tool starts: a new process (empty property bag filled by the command
\* line parser, static flag FALSE), the chip probed into a fresh record.  The file
\* system and the chip's mode are what the earlier runs left; the tool runs on a
\* chip without open sessions (a reset of the chip ends them).
StartRun(req, probe) ==
    /\ ret.fn = "none"
    /\ probe.attribs.bootLoader = chip.bootLoader
    /\ chip' = [chip EXCEPT !.sessions = {}]
    /\ upd' = InitialUpdate(probe)
    /\ props' = CliProperties(req)
    /\ s_fUpdateThroughConfigFile' = FALSE
    /\ phases' = {}
    /\ clear' = [unReturnCode |-> "RC_E_FAIL"]
    /\ ret' = Ret("StartRun", "RC_SUCCESS")
    /\ UNCHANGED <<rundata, started, tpmio>>

\* The run ends: the process exits, and with it the record, the property bag and
\* the static flag
ExitRun ==
    /\ ret.fn # "none"
    /\ upd' = InitialUpdate(Probe(NoAttribs, 0))
    /\ props' = <<>>
    /\ s_fUpdateThroughConfigFile' = FALSE
    /\ phases' = {}
    /\ clear' = [unReturnCode |-> "RC_E_FAIL"]
    /\ ret' = Ret("none", "RC_SUCCESS")
    /\ UNCHANGED <<rundata, chip, started, tpmio>>

----------------------------------------------------------------------------
(* CommandFlow_TpmUpdate_IsTpmUpdatableWithFirmware *)

\* What loading, checking and parsing the image can give: whether
\* FileIO_ReadFileToBuffer succeeds, FirmwareUpdate_CheckImage's
\* return value, fValid and unErrorDetails, then FirmwareImage_Unmarshal's and
\* Platform_StringCopy's return values
ImageChecks ==
    {[read |-> FALSE, rc |-> "RC_SUCCESS", fValid |-> FALSE, details |-> "RC_SUCCESS",
      unmarshal |-> "RC_SUCCESS", copy |-> "RC_SUCCESS"]}
    \cup {[read |-> TRUE, rc |-> r, fValid |-> FALSE, details |-> "RC_SUCCESS", unmarshal |-> "RC_SUCCESS", copy |-> "RC_SUCCESS"] :
        r \in {"TPM_FAIL|RC_TPM_MASK", "RC_E_INTERNAL"}}
    \cup {[read |-> TRUE, rc |-> "RC_SUCCESS", fValid |-> FALSE, details |-> d, unmarshal |-> "RC_SUCCESS", copy |-> "RC_SUCCESS"] :
        d \in {"RC_E_CORRUPT_FW_IMAGE", "RC_E_WRONG_FW_IMAGE", "RC_E_NEWER_TOOL_REQUIRED",
               "RC_E_WRONG_DECRYPT_KEYS", "RC_E_FAIL"}}
    \cup {[read |-> TRUE, rc |-> "RC_SUCCESS", fValid |-> TRUE, details |-> "RC_SUCCESS",
           unmarshal |-> u, copy |-> c] :
        u \in {"RC_SUCCESS", "RC_E_BUFFER_TOO_SMALL"}, c \in {"RC_SUCCESS", "RC_E_BUFFER_TOO_SMALL"}}

\* What FirmwareImage_Unmarshal reads from the image file of the runs
FirmwareImage == [wszTargetVersion |-> <<"5", ".", "1">>, bTargetTpmFamily |-> "TPM20"]

\* Variant: the error details of an image that is not valid are returned as they are
IsTpmUpdatableWithFirmware_DetailsAsCode(u, chk) ==
    LET u1 == [u EXCEPT !.fValid = chk.fValid, !.unErrorDetails = chk.details] IN
    IF chk.rc # "RC_SUCCESS" THEN [upd |-> u1, rc |-> chk.rc]
    ELSE IF ~u1.fValid THEN [upd |-> u1, rc |-> u1.unErrorDetails]
    ELSE IF chk.unmarshal # "RC_SUCCESS" THEN [upd |-> u1, rc |-> chk.unmarshal]
    ELSE IF chk.copy # "RC_SUCCESS" THEN [upd |-> u1, rc |-> chk.copy]
    ELSE [upd |-> [u1 EXCEPT !.wszNewFirmwareVersion = FirmwareImage.wszTargetVersion,
                             !.bTargetFamily = FirmwareImage.bTargetTpmFamily],
          rc |-> "RC_SUCCESS"]

\* The result is the record and the return value
IsTpmUpdatableWithFirmware(u, chk) ==
    LET u1 == [u EXCEPT !.fValid = chk.fValid, !.unErrorDetails = chk.details] IN
    IF chk.rc # "RC_SUCCESS" THEN [upd |-> u1, rc |-> chk.rc]
    ELSE IF ~u1.fValid THEN
        [upd |-> u1,
         rc |-> IF u1.unErrorDetails \in {"RC_E_CORRUPT_FW_IMAGE", "RC_E_WRONG_FW_IMAGE",
                                          "RC_E_NEWER_TOOL_REQUIRED", "RC_E_WRONG_DECRYPT_KEYS"}
                THEN u1.unErrorDetails
                ELSE "RC_E_TPM_FIRMWARE_UPDATE"]
    ELSE IF chk.unmarshal # "RC_SUCCESS" THEN [upd |-> u1, rc |-> chk.unmarshal]
    ELSE IF chk.copy # "RC_SUCCESS" THEN [upd |-> u1, rc |-> chk.copy]
    ELSE [upd |-> [u1 EXCEPT !.wszNewFirmwareVersion = FirmwareImage.wszTargetVersion,
                             !.bTargetFamily = FirmwareImage.bTargetTpmFamily],
          rc |-> "RC_SUCCESS"]

----------------------------------------------------------------------------
(* CommandFlow_TpmUpdate_IsFirmwareUpdatable *)

\* Variant: the remaining-updates counter is not looked at
UpdatableCheck_NoCount(u, unUpdateType) ==
    IF u.sTpmState.tpm12 /\ unUpdateType \notin {"UPDATE_TYPE_TPM12_DEFERREDPP", "UPDATE_TYPE_TPM12_TAKEOWNERSHIP"}
        THEN "RC_E_INVALID_UPDATE_OPTION"
    ELSE IF u.sTpmState.tpm12 /\ u.sTpmState.tpm12owner THEN "RC_E_TPM12_OWNED"
    ELSE IF u.sTpmState.tpm20 /\ unUpdateType # "UPDATE_TYPE_TPM20_EMPTYPLATFORMAUTH"
        THEN "RC_E_INVALID_UPDATE_OPTION"
    ELSE IF u.sTpmState.tpm20restartRequired THEN "RC_E_RESTART_REQUIRED"
    ELSE IF u.sTpmState.tpm20InFailureMode THEN "RC_E_TPM20_FAILURE_MODE"
    ELSE "RC_SUCCESS"

\* Variant: the owner of a TPM1.2 is not looked at
UpdatableCheck_NoOwner(u, unUpdateType) ==
    IF u.sTpmState.tpm12 /\ unUpdateType \notin {"UPDATE_TYPE_TPM12_DEFERREDPP", "UPDATE_TYPE_TPM12_TAKEOWNERSHIP"}
        THEN "RC_E_INVALID_UPDATE_OPTION"
    ELSE IF u.sTpmState.tpm20 /\ unUpdateType # "UPDATE_TYPE_TPM20_EMPTYPLATFORMAUTH"
        THEN "RC_E_INVALID_UPDATE_OPTION"
    ELSE IF u.sTpmState.tpm20restartRequired THEN "RC_E_RESTART_REQUIRED"
    ELSE IF u.sTpmState.tpm20InFailureMode THEN "RC_E_TPM20_FAILURE_MODE"
    ELSE IF u.unRemainingUpdates = 0 THEN "RC_E_FW_UPDATE_BLOCKED"
    ELSE "RC_SUCCESS"

\* The first failing precondition check, or RC_SUCCESS when the chip can be updated
UpdatableCheck(u, unUpdateType) ==
    IF u.sTpmState.tpm12 /\ unUpdateType \notin {"UPDATE_TYPE_TPM12_DEFERREDPP", "UPDATE_TYPE_TPM12_TAKEOWNERSHIP"}
        THEN "RC_E_INVALID_UPDATE_OPTION"
    ELSE IF u.sTpmState.tpm12 /\ u.sTpmState.tpm12owner THEN "RC_E_TPM12_OWNED"
    ELSE IF u.sTpmState.tpm20 /\ unUpdateType # "UPDATE_TYPE_TPM20_EMPTYPLATFORMAUTH"
        THEN "RC_E_INVALID_UPDATE_OPTION"
    ELSE IF u.sTpmState.tpm20restartRequired THEN "RC_E_RESTART_REQUIRED"
    ELSE IF u.sTpmState.tpm20InFailureMode THEN "RC_E_TPM20_FAILURE_MODE"
    ELSE IF u.unRemainingUpdates = 0 THEN "RC_E_FW_UPDATE_BLOCKED"
    ELSE "RC_SUCCESS"

\* Variant: the entry leaves unNewFirmwareValid as it is
IsFirmwareUpdatable_Enter_KeepValid(u) ==
    [u EXCEPT !.unSubType = "STRUCT_SUBTYPE_IS_UPDATABLE", !.unReturnCode = "RC_E_FAIL"]

\* The record on entry, after "Set TpmUpdate structure sub type and return value"
IsFirmwareUpdatable_Enter(u) ==
    [u EXCEPT !.unSubType = "STRUCT_SUBTYPE_IS_UPDATABLE",
              !.unNewFirmwareValid = "GENERIC_TRISTATE_STATE_NA",
              !.unReturnCode = "RC_E_FAIL"]

\* chk: the outcome of loading and checking the image.
\* The result is the record and the envelope return value.
IsFirmwareUpdatable(u, p, chk) ==
    LET u0 == IsFirmwareUpdatable_Enter(u) IN
    IF "PROPERTY_UPDATE_TYPE" \notin DOMAIN p THEN [upd |-> u0, rv |-> "RC_E_FAIL"]
    ELSE LET pre == UpdatableCheck(u0, p["PROPERTY_UPDATE_TYPE"]) IN
    IF pre # "RC_SUCCESS" THEN [upd |-> [u0 EXCEPT !.unReturnCode = pre], rv |-> "RC_SUCCESS"]
    ELSE IF "PROPERTY_FIRMWARE_PATH" \notin DOMAIN p THEN [upd |-> u0, rv |-> "RC_E_FAIL"]
    ELSE IF ~chk.read THEN [upd |-> u0, rv |-> "RC_E_INVALID_FW_OPTION"]
    ELSE LET r == IsTpmUpdatableWithFirmware([u0 EXCEPT !.rgbFirmwareImage = p["PROPERTY_FIRMWARE_PATH"]],
                                             chk) IN
    IF r.rc # "RC_SUCCESS"
    THEN [upd |-> [r.upd EXCEPT !.unNewFirmwareValid = "GENERIC_TRISTATE_STATE_NO", !.unReturnCode = r.rc],
          rv |-> "RC_SUCCESS"]
    ELSE [upd |-> [r.upd EXCEPT !.unNewFirmwareValid = "GENERIC_TRISTATE_STATE_YES",
                                !.unReturnCode = "RC_SUCCESS"],
          rv |-> "RC_SUCCESS"]

\* The image is loaded and checked only when the checks before it pass
LoadsImage(u, p) ==
    /\ "PROPERTY_UPDATE_TYPE" \in DOMAIN p
    /\ UpdatableCheck(u, p["PROPERTY_UPDATE_TYPE"]) = "RC_SUCCESS"
    /\ "PROPERTY_FIRMWARE_PATH" \in DOMAIN p

ImageLoads ==
    [read |-> TRUE, rc |-> "RC_SUCCESS", fValid |-> TRUE, details |-> "RC_SUCCESS",
     unmarshal |-> "RC_SUCCESS", copy |-> "RC_SUCCESS"]

CallIsFirmwareUpdatable(history) ==
    \E chk \in (IF LoadsImage(upd, props) THEN ImageChecks ELSE {ImageLoads}) :
        LET r == IsFirmwareUpdatable(upd, props, chk) IN
        /\ upd' = r.upd
        /\ phases' = phases \cup {"updatable check"}
        /\ ret' = [Ret("IsFirmwareUpdatable", r.rv) EXCEPT
                        !.imageChecked = LoadsImage(upd, props) /\ chk.read, !.env = IF history THEN chk ELSE <<>>]
        /\ UNCHANGED <<props, s_fUpdateThroughConfigFile, rundata, chip, started, clear, tpmio>>

----------------------------------------------------------------------------
(* CommandFlow_TpmUpdate_PrepareTPM12PhysicalPresence *)

\* Return values of a TPM1.2 command function: success, a chip error (with the
\* mask bit), or an error of the transport (the command did not complete)
PresenceResults ==
    {"RC_SUCCESS", "TPM_BAD_PARAMETER|RC_TPM_MASK", "TPM_FAIL|RC_TPM_MASK", "RC_E_INTERNAL",
     "RC_E_BAD_PARAMETER"}

\* Variant: the tool's own bad-parameter value is taken for the chip's
IsTpmBadParameter_AnyBadParameter(rc) == rc \in {"TPM_BAD_PARAMETER|RC_TPM_MASK", "RC_E_BAD_PARAMETER"}

\* TPM_BAD_PARAMETER == (unReturnValue ^ RC_TPM_MASK)
IsTpmBadParameter(rc) == IsTpmCode(rc, TPM_BAD_PARAMETER)

\* Variant: an error of TSC_PhysicalPresence(PRESENT) is returned as it is
PrepareTPM12PhysicalPresence_PresentUnmapped(enable, present, setcap) ==
    IF enable # "RC_SUCCESS" /\ ~IsTpmBadParameter(enable)
    THEN [rc |-> enable, cmds |-> <<"TSC_PhysicalPresence(CMD_ENABLE)">>]
    ELSE IF present # "RC_SUCCESS"
    THEN [rc |-> present,
          cmds |-> <<"TSC_PhysicalPresence(CMD_ENABLE)", "TSC_PhysicalPresence(PRESENT)">>]
    ELSE [rc |-> setcap,
          cmds |-> <<"TSC_PhysicalPresence(CMD_ENABLE)", "TSC_PhysicalPresence(PRESENT)",
                     "TPM_SetCapability(STCLEAR_DATA,DEFERREDPHYSICALPRESENCE)">>]

\* enable, present, setcap: the return values of the three commands, when sent
PrepareTPM12PhysicalPresence(enable, present, setcap) ==
    IF enable # "RC_SUCCESS" /\ ~IsTpmBadParameter(enable)
    THEN [rc |-> enable, cmds |-> <<"TSC_PhysicalPresence(CMD_ENABLE)">>]
    ELSE IF present # "RC_SUCCESS"
    THEN [rc |-> IF IsTpmBadParameter(present) THEN "RC_E_TPM12_DEFERREDPP_REQUIRED" ELSE present,
          cmds |-> <<"TSC_PhysicalPresence(CMD_ENABLE)", "TSC_PhysicalPresence(PRESENT)">>]
    ELSE [rc |-> setcap,
          cmds |-> <<"TSC_PhysicalPresence(CMD_ENABLE)", "TSC_PhysicalPresence(PRESENT)",
                     "TPM_SetCapability(STCLEAR_DATA,DEFERREDPHYSICALPRESENCE)">>]

----------------------------------------------------------------------------
(* TPM1.2 authorization sessions on the chip *)

\* The handle TPM_OIAP or TPM2_StartAuthSession returns: a free session slot
FreeHandle(sessions) == CHOOSE h \in Handles \ sessions : \A g \in Handles \ sessions : h <= g

\* The chip's sessions after a TPM1.2 command authorized with session h returned rc:
\* the chip ends the session when the command completes (continueAuthSession is
\* FALSE) or fails; a command that did not complete (transport error) leaves it
AfterAuthorizedCommand(sessions, h, rc) ==
    IF rc = "RC_E_INTERNAL" THEN sessions ELSE sessions \ {h}

----------------------------------------------------------------------------
(* CommandFlow_TpmUpdate_PrepareTPM12Ownership *)

OwnershipResults ==
    {"RC_SUCCESS", "TPM_DEACTIVATED|RC_TPM_MASK", "TPM_DISABLED|RC_TPM_MASK",
     "TPM_FAIL|RC_TPM_MASK", "RC_E_INTERNAL"}

\* The return values of the steps, when reached: TSS_TPM_ReadPubEK, the two
\* Crypt_EncryptRSA, TSS_TPM_OIAP, TSS_TPM_TakeOwnership and the key length of the
\* storage root key it returned.  A step after a failed one is not reached.
OwnershipSteps ==
    {e \in [ek : OwnershipResults, enc1 : {"RC_SUCCESS", "RC_E_FAIL"}, enc2 : {"RC_SUCCESS", "RC_E_FAIL"},
            oiap : OwnershipResults, take : OwnershipResults, keyLength : {0, 256}] :
        /\ e.ek # "RC_SUCCESS" => e.enc1 = "RC_SUCCESS"
        /\ e.enc1 # "RC_SUCCESS" => e.enc2 = "RC_SUCCESS"
        /\ e.enc2 # "RC_SUCCESS" => e.oiap = "RC_SUCCESS"
        /\ (e.ek # "RC_SUCCESS" \/ e.enc1 # "RC_SUCCESS" \/ e.enc2 # "RC_SUCCESS" \/ e.oiap # "RC_SUCCESS")
                => e.take = "RC_SUCCESS"
        /\ (e.ek # "RC_SUCCESS" \/ e.enc1 # "RC_SUCCESS" \/ e.enc2 # "RC_SUCCESS" \/ e.oiap # "RC_SUCCESS"
                \/ e.take # "RC_SUCCESS") => e.keyLength = 256}

\* Variant: only the chip's TPM_DEACTIVATED is mapped
MapDisabledDeactivated_DeactivatedOnly(rc) ==
    IF IsTpmCode(rc, TPM_DEACTIVATED) THEN "RC_E_TPM12_DISABLED_DEACTIVATED" ELSE rc

\* Map return value in case TPM is disabled or deactivated to corresponding tool exit code
MapDisabledDeactivated(rc) ==
    IF IsTpmCode(rc, TPM_DEACTIVATED) \/ IsTpmCode(rc, TPM_DISABLED)
    THEN "RC_E_TPM12_DISABLED_DEACTIVATED" ELSE rc

\* The do { } while (FALSE) block.  The result: return value, commands sent, the
\* chip's sessions afterwards, the handle TSS_TPM_OIAP returned (0: none)
PrepareTPM12Ownership_Block(sessions, e) ==
    LET h == FreeHandle(sessions)
        none == [rc |-> "RC_SUCCESS", cmds |-> <<>>, sessions |-> sessions, oiap |-> 0] IN
    IF e.ek # "RC_SUCCESS"
    THEN [none EXCEPT !.rc = e.ek, !.cmds = <<"TPM_ReadPubEK">>]
    ELSE IF e.enc1 # "RC_SUCCESS"
    THEN [none EXCEPT !.rc = e.enc1, !.cmds = <<"TPM_ReadPubEK">>]
    ELSE IF e.enc2 # "RC_SUCCESS"
    THEN [none EXCEPT !.rc = e.enc2, !.cmds = <<"TPM_ReadPubEK">>]
    ELSE IF e.oiap # "RC_SUCCESS"
    THEN [none EXCEPT !.rc = e.oiap, !.cmds = <<"TPM_ReadPubEK", "TPM_OIAP">>]
    ELSE [rc |-> e.take,
          cmds |-> <<"TPM_ReadPubEK", "TPM_OIAP", "TPM_TakeOwnership">>,
          sessions |-> AfterAuthorizedCommand(sessions \cup {h}, h, e.take),
          oiap |-> h]

\* The whole routine: the block, then the return value is mapped
PrepareTPM12Ownership(sessions, e) ==
    LET r == PrepareTPM12Ownership_Block(sessions, e) IN
    [r EXCEPT !.rc = MapDisabledDeactivated(r.rc)]

----------------------------------------------------------------------------
(* FirmwareUpdate_PrepareTPM20Policy (spec 4.6, Tpm20EmptyPlatformAuth) *)

Tpm20Results == {"RC_SUCCESS", "TPM_RC_FAILURE|RC_TPM_MASK", "RC_E_INTERNAL"}

\* The return values of TPM2_StartAuthSession, TPM2_PolicyCommandCode and
\* TPM2_PolicySecret, when reached, and whether the flush of an error exit succeeds
PolicySteps ==
    {e \in [start : Tpm20Results, code : Tpm20Results, secret : Tpm20Results, flushOk : BOOLEAN] :
        /\ e.start # "RC_SUCCESS" => e.code = "RC_SUCCESS"
        /\ (e.start # "RC_SUCCESS" \/ e.code # "RC_SUCCESS") => e.secret = "RC_SUCCESS"
        /\ (e.start # "RC_SUCCESS" \/ (e.code = "RC_SUCCESS" /\ e.secret = "RC_SUCCESS")) => e.flushOk}

\* The result: return value, the handle stored through the out parameter, commands
\* sent, the chip's sessions afterwards.  A failure after the session was created
\* flushes it (best effort) and stores no handle.
PrepareTPM20Policy(sessions, e) ==
    LET h == FreeHandle(sessions) IN
    IF e.start # "RC_SUCCESS"
    THEN [rc |-> e.start, handle |-> 0, cmds |-> <<"TPM2_StartAuthSession">>, sessions |-> sessions,
          opened |-> {}]
    ELSE IF e.code # "RC_SUCCESS"
    THEN [rc |-> e.code, handle |-> 0,
          cmds |-> <<"TPM2_StartAuthSession", "TPM2_PolicyCommandCode", "TPM2_FlushContext">>,
          sessions |-> IF e.flushOk THEN sessions ELSE sessions \cup {h}, opened |-> {h}]
    ELSE IF e.secret # "RC_SUCCESS"
    THEN [rc |-> e.secret, handle |-> 0,
          cmds |-> <<"TPM2_StartAuthSession", "TPM2_PolicyCommandCode", "TPM2_PolicySecret",
                     "TPM2_FlushContext">>,
          sessions |-> IF e.flushOk THEN sessions ELSE sessions \cup {h}, opened |-> {h}]
    ELSE [rc |-> "RC_SUCCESS", handle |-> h,
          cmds |-> <<"TPM2_StartAuthSession", "TPM2_PolicyCommandCode", "TPM2_PolicySecret">>,
          sessions |-> sessions \cup {h}, opened |-> {h}]

----------------------------------------------------------------------------
(* CommandFlow_TpmUpdate_PrepareFirmwareUpdate *)

\* Check parameters (a record of the right type and size): the sub type the phase needs
PrepareFirmwareUpdate_CheckParameters(u) == u.unSubType = "STRUCT_SUBTYPE_IS_UPDATABLE"

\* Variant: the preparation never finds deferred physical presence set
DeferredPhysicalPresenceIsSet_Never(u) == FALSE

\* "Check if Deferred Physical Presence is set.  If so we do not need to set it and
\* can jump out."
DeferredPhysicalPresenceIsSet(u) == u.sTpmState.tpm12DeferredPhysicalPresence

\* Variant: the boot-loader mode is not tested
NoPreparationNeeded_Never(u) == FALSE

\* "No preparation needed": the chip is in boot-loader mode
NoPreparationNeeded(u) == u.sTpmState.bootLoader

\* pp: the return values of the physical presence commands; own: the ownership
\* steps; pol: the policy steps.  The result: the record, the envelope return value,
\* the commands sent, the chip's sessions, the session handles opened.
PrepareFirmwareUpdate(u, p, sessions, pp, own, pol) ==
    LET none == [upd |-> u, rv |-> "RC_E_FAIL", cmds |-> <<>>, sessions |-> sessions, opened |-> {}] IN
    IF ~PrepareFirmwareUpdate_CheckParameters(u) THEN [none EXCEPT !.rv = "RC_E_BAD_PARAMETER"]
    ELSE LET u0 == [u EXCEPT !.unSubType = "STRUCT_SUBTYPE_PREPARE", !.unReturnCode = "RC_E_FAIL"] IN
    IF NoPreparationNeeded(u0)
    THEN [none EXCEPT !.upd = [u0 EXCEPT !.unReturnCode = "RC_SUCCESS"], !.rv = "RC_SUCCESS"]
    ELSE IF u0.sTpmState.tpm20
    THEN LET r == PrepareTPM20Policy(sessions, pol) IN
         [upd |-> [u0 EXCEPT !.unReturnCode = r.rc, !.hPolicySession = r.handle],
          rv |-> "RC_SUCCESS", cmds |-> r.cmds, sessions |-> r.sessions, opened |-> r.opened]
    ELSE IF u0.sTpmState.tpm12
    THEN IF "PROPERTY_UPDATE_TYPE" \notin DOMAIN p THEN [none EXCEPT !.upd = u0]
         ELSE IF p["PROPERTY_UPDATE_TYPE"] = "UPDATE_TYPE_TPM12_DEFERREDPP"
         THEN IF DeferredPhysicalPresenceIsSet(u0)
              THEN [none EXCEPT !.upd = [u0 EXCEPT !.unReturnCode = "RC_SUCCESS"], !.rv = "RC_SUCCESS"]
              ELSE LET r == PrepareTPM12PhysicalPresence(pp.enable, pp.present, pp.setcap) IN
                   [none EXCEPT !.upd = [u0 EXCEPT !.unReturnCode = r.rc], !.rv = "RC_SUCCESS",
                                !.cmds = r.cmds]
         ELSE IF p["PROPERTY_UPDATE_TYPE"] = "UPDATE_TYPE_TPM12_TAKEOWNERSHIP"
         THEN LET r == PrepareTPM12Ownership(sessions, own) IN
              [upd |-> [u0 EXCEPT !.unReturnCode = r.rc], rv |-> "RC_SUCCESS", cmds |-> r.cmds,
               sessions |-> r.sessions, opened |-> IF r.oiap = 0 THEN {} ELSE {r.oiap}]
         ELSE [none EXCEPT !.upd = u0]
    ELSE [none EXCEPT !.upd = u0]

\* The return values of the three physical presence commands, when reached
PresenceSteps ==
    {e \in [enable : PresenceResults, present : PresenceResults, setcap : PresenceResults] :
        /\ (e.enable # "RC_SUCCESS" /\ ~IsTpmBadParameter(e.enable)) => e.present = "RC_SUCCESS"
        /\ ((e.enable # "RC_SUCCESS" /\ ~IsTpmBadParameter(e.enable)) \/ e.present # "RC_SUCCESS")
                => e.setcap = "RC_SUCCESS"}

\* The outcomes of the preparation for one call: only the routine the call runs
\* has steps that can fail
PresenceSucceeds == [enable |-> "RC_SUCCESS", present |-> "RC_SUCCESS", setcap |-> "RC_SUCCESS"]
OwnershipSucceeds ==
    [ek |-> "RC_SUCCESS", enc1 |-> "RC_SUCCESS", enc2 |-> "RC_SUCCESS", oiap |-> "RC_SUCCESS",
     take |-> "RC_SUCCESS", keyLength |-> 256]
PolicySucceeds == [start |-> "RC_SUCCESS", code |-> "RC_SUCCESS", secret |-> "RC_SUCCESS", flushOk |-> TRUE]

UpdateTypeIs(p, unUpdateType) ==
    "PROPERTY_UPDATE_TYPE" \in DOMAIN p /\ p["PROPERTY_UPDATE_TYPE"] = unUpdateType

PrepareSteps(u, p) ==
    IF ~PrepareFirmwareUpdate_CheckParameters(u) \/ u.sTpmState.bootLoader
    THEN {[pp |-> PresenceSucceeds, own |-> OwnershipSucceeds, pol |-> PolicySucceeds]}
    ELSE IF u.sTpmState.tpm20
    THEN {[pp |-> PresenceSucceeds, own |-> OwnershipSucceeds, pol |-> x] : x \in PolicySteps}
    ELSE IF u.sTpmState.tpm12 /\ UpdateTypeIs(p, "UPDATE_TYPE_TPM12_DEFERREDPP")
            /\ ~u.sTpmState.tpm12DeferredPhysicalPresence
    THEN {[pp |-> x, own |-> OwnershipSucceeds, pol |-> PolicySucceeds] : x \in PresenceSteps}
    ELSE IF u.sTpmState.tpm12 /\ UpdateTypeIs(p, "UPDATE_TYPE_TPM12_TAKEOWNERSHIP")
    THEN {[pp |-> PresenceSucceeds, own |-> x, pol |-> PolicySucceeds] : x \in OwnershipSteps}
    ELSE {[pp |-> PresenceSucceeds, own |-> OwnershipSucceeds, pol |-> PolicySucceeds]}

\* A command that opens a session succeeds only while the chip has a free session slot
HasFreeSlot(sessions) == Handles \ sessions # {}

CallPrepareFirmwareUpdate(history) ==
    \E e \in PrepareSteps(upd, props) :
        /\ HasFreeSlot(chip.sessions) \/ (e.own.oiap # "RC_SUCCESS" /\ e.pol.start # "RC_SUCCESS")
        /\ LET r == PrepareFirmwareUpdate(upd, props, chip.sessions, e.pp, e.own, e.pol) IN
            /\ upd' = r.upd
            /\ chip' = [chip EXCEPT !.sessions = r.sessions]
            /\ ret' = [Ret("PrepareFirmwareUpdate", r.rv) EXCEPT
                            !.cmds = r.cmds, !.opened = r.opened,
                            !.env = IF history THEN e ELSE <<>>]
        /\ phases' = IF PrepareFirmwareUpdate_CheckParameters(upd)
                      THEN phases \cup {"prepare"} ELSE phases
        /\ UNCHANGED <<props, s_fUpdateThroughConfigFile, rundata, started, clear, tpmio>>

----------------------------------------------------------------------------
(* CommandFlow_TpmUpdate_UpdateStartedCallback *)

\* What the file system does to the run data file: it is written, cannot be
\* opened for writing, or is opened (created empty) and the write fails
FileOutcomes == {"written", "open fails", "write fails"}

\* Variant: the callback writes the file in every update, config-file driven or not
UpdateStartedCallback_EveryUpdate(flag, p, file, io) ==
    IF io = "open fails" THEN file
    ELSE IF "PROPERTY_FIRMWARE_PATH" \notin DOMAIN p THEN [exists |-> TRUE, content |-> <<>>]
    ELSE IF io = "write fails" THEN [exists |-> TRUE, content |-> <<>>]
    ELSE [exists |-> TRUE, content |-> p["PROPERTY_FIRMWARE_PATH"]]

\* Variant: the callback writes the file but not the path
UpdateStartedCallback_NoPath(flag, p, file, io) ==
    IF ~flag THEN file
    ELSE IF io = "open fails" THEN file
    ELSE [exists |-> TRUE, content |-> <<>>]

\* The run data file after the callback
UpdateStartedCallback(flag, p, file, io) ==
    IF ~flag THEN file
    ELSE IF io = "open fails" THEN file
    ELSE IF "PROPERTY_FIRMWARE_PATH" \notin DOMAIN p THEN [exists |-> TRUE, content |-> <<>>]
    ELSE IF io = "write fails" THEN [exists |-> TRUE, content |-> <<>>]
    ELSE [exists |-> TRUE, content |-> p["PROPERTY_FIRMWARE_PATH"]]

----------------------------------------------------------------------------
(* FirmwareUpdate_UpdateImage (spec 4.7: START_TRANSFER, TRANSFER_BLOCKS, COMPLETE) *)

\* How a transfer can go: the start is refused or times out (no block acknowledged);
\* blocks 1..acked are acknowledged and the next step fails; all blocks are
\* acknowledged and the completion succeeds
TransferOutcomes ==
    {[acked |-> 0, rc |-> e] : e \in {"TPM_FAIL|RC_TPM_MASK", "TimedOut"}}
    \cup {[acked |-> k, rc |-> e] : k \in 1..NumBlocks, e \in {"TPM_FAIL|RC_TPM_MASK", "TimedOut"}}
    \cup {[acked |-> NumBlocks, rc |-> "RC_SUCCESS"]}

\* Progress after each acknowledged block: (bytes_sent * 100) / total_bytes
TransferProgress(acked) ==
    [i \in 1..acked |-> [call |-> "Response_ProgressCallback", arg |-> (i * 100) \div NumBlocks]]

TransferCommands(o) ==
    <<"FieldUpgradeStart">> \o [i \in 1..o.acked |-> "FieldUpgradeUpdate"]
    \o (IF o.acked < NumBlocks THEN IF o.rc = "TimedOut" THEN <<>> ELSE <<"FieldUpgradeUpdate">>
        ELSE <<"FieldUpgradeComplete">>)

\* The update-started callback fires when the chip acknowledges the first data block
TransferStarted(o) == o.acked >= 1

\* The chip after the transfer: an accepted start uses up the policy session given
\* with it and leaves the chip in boot-loader mode until a transfer completes
ChipAfterTransfer(c, unSessionHandle, o) ==
    IF ~TransferStarted(o) THEN c
    ELSE [bootLoader |-> o.rc # "RC_SUCCESS", sessions |-> c.sessions \ {unSessionHandle}]

----------------------------------------------------------------------------
(* CommandFlow_TpmUpdate_UpdateFirmware *)

\* Variant: the update phase accepts a record of any sub type
UpdateFirmware_CheckParameters_Any(u) == TRUE

\* Check parameters (a record of the right type and size): the sub type the phase needs
UpdateFirmware_CheckParameters(u) == u.unSubType = "STRUCT_SUBTYPE_PREPARE"

\* Variant: the dry-run property is not looked at
DryRun_Never(p) == FALSE

\* TRUE == PropertyStorage_GetBooleanValueByKey(PROPERTY_DRY_RUN, &fValue) && TRUE == fValue
DryRun(p) == "PROPERTY_DRY_RUN" \in DOMAIN p /\ p["PROPERTY_DRY_RUN"] = TRUE

\* The dry run's loop: ullProgress = 25; ullProgress <= 100; ullProgress += 25
RECURSIVE DryRunEvents(_)
DryRunEvents(ullProgress) ==
    IF ullProgress > 100 THEN <<>>
    ELSE <<[call |-> "Platform_SleepMicroSeconds", arg |-> 2000000],
           [call |-> "Response_ProgressCallback", arg |-> ullProgress]>>
         \o DryRunEvents(ullProgress + 25)

\* Variant: the run data file is removed whatever the transfer returned
RemovesRunData_Always(unReturnCode, file) == file.exists

\* The run data file is removed (when it exists) once the inner return code is RC_SUCCESS
RemovesRunData(unReturnCode, file) == unReturnCode = "RC_SUCCESS" /\ file.exists

\* Variant: the policy session is closed only when the envelope value is an error
ClosesPolicySession_EnvelopeOnly(unReturnValue, u) ==
    unReturnValue # "RC_SUCCESS" /\ u.hPolicySession # 0

\* Try to close policy session in case of errors (only if session has already been started)
ClosesPolicySession(unReturnValue, u) ==
    (unReturnValue # "RC_SUCCESS" \/ u.unReturnCode # "RC_SUCCESS") /\ u.hPolicySession # 0

\* sFirmwareUpdateData as the transfer gets it: the session handle of a TPM2.0
\* update flow, the TPM Owner authentication hash of an update with taking ownership
FirmwareUpdateData(u0, p) ==
    [unSessionHandle |-> IF u0.sTpmState.tpm20 THEN u0.hPolicySession ELSE 0,
     rgbOwnerAuthHash |-> IF u0.sTpmState.tpm12 /\ UpdateTypeIs(p, "UPDATE_TYPE_TPM12_TAKEOWNERSHIP")
                          THEN "s_ownerAuthData" ELSE "zero"]

\* The do { } while (FALSE) block.  o: the transfer's outcome; io: what happens to
\* the run data file in the callback; removeOk: FileIO_Remove succeeds.
UpdateFirmware_Block(u, p, flag, file, c, o, io, removeOk) ==
    LET none == [upd |-> u, rv |-> "RC_E_FAIL", cmds |-> <<>>, events |-> <<>>,
                 transfer |-> FALSE, callback |-> FALSE, transferRc |-> "RC_SUCCESS",
                 rundata |-> file, markerAfterTransfer |-> file,
                 removeFailed |-> FALSE, chip |-> c, data |-> <<>>] IN
    IF ~UpdateFirmware_CheckParameters(u) THEN [none EXCEPT !.rv = "RC_E_BAD_PARAMETER"]
    ELSE LET u0 == [u EXCEPT !.unSubType = "STRUCT_SUBTYPE_UPDATE", !.unReturnCode = "RC_E_FAIL"]
             unSessionHandle == FirmwareUpdateData(u0, p).unSessionHandle IN
    IF u0.sTpmState.tpm12 /\ "PROPERTY_UPDATE_TYPE" \notin DOMAIN p THEN [none EXCEPT !.upd = u0]
    ELSE LET r == IF DryRun(p)
                  THEN [none EXCEPT !.upd = [u0 EXCEPT !.unReturnCode = "RC_SUCCESS"],
                                    !.events = DryRunEvents(25)]
                  ELSE LET f == IF TransferStarted(o) THEN UpdateStartedCallback(flag, p, file, io)
                                ELSE file IN
                       [none EXCEPT !.upd = [u0 EXCEPT !.unReturnCode = o.rc],
                                    !.cmds = TransferCommands(o),
                                    !.events = TransferProgress(o.acked),
                                    !.transfer = TRUE, !.transferRc = o.rc,
                                    !.callback = TransferStarted(o),
                                    !.rundata = f, !.markerAfterTransfer = f,
                                    !.chip = ChipAfterTransfer(c, unSessionHandle, o),
                                    !.data = FirmwareUpdateData(u0, p)] IN
    IF RemovesRunData(r.upd.unReturnCode, r.rundata)
    THEN [r EXCEPT !.rv = "RC_SUCCESS", !.rundata = IF removeOk THEN NoFile ELSE @,
                   !.removeFailed = ~removeOk]
    ELSE [r EXCEPT !.rv = "RC_SUCCESS"]

\* The whole function: the block, then the policy session is closed in case of
\* errors.  flushOk: TSS_TPM2_FlushContext succeeds (its return value is ignored).
UpdateFirmware(u, p, flag, file, c, o, io, removeOk, flushOk) ==
    LET r == UpdateFirmware_Block(u, p, flag, file, c, o, io, removeOk) IN
    IF ClosesPolicySession(r.rv, r.upd)
    THEN [r EXCEPT !.upd = [r.upd EXCEPT !.hPolicySession = 0],
                   !.cmds = @ \o <<"TPM2_FlushContext">>,
                   !.chip = [r.chip EXCEPT !.sessions = IF flushOk THEN @ \ {r.upd.hPolicySession} ELSE @]]
         @@ [flushes |-> <<r.upd.hPolicySession>>, flushFailed |-> ~flushOk]
    ELSE r @@ [flushes |-> <<>>, flushFailed |-> FALSE]

\* A transfer acknowledges blocks only of an image that was loaded
CanTransfer(u, o) == TransferStarted(o) => u.rgbFirmwareImage # <<>>

CallUpdateFirmware ==
    \E o \in TransferOutcomes, io \in FileOutcomes, removeOk \in BOOLEAN, flushOk \in BOOLEAN :
        /\ CanTransfer(upd, o)
        /\ ~(UpdateFirmware_CheckParameters(upd) /\ ~DryRun(props)) => o.rc = "RC_SUCCESS"
        /\ ~(s_fUpdateThroughConfigFile /\ TransferStarted(o)) => io = "written"
        /\ ~(rundata.exists \/ s_fUpdateThroughConfigFile) => removeOk
        /\ upd.hPolicySession = 0 => flushOk
        /\ LET r == UpdateFirmware(upd, props, s_fUpdateThroughConfigFile, rundata, chip, o, io,
                                   removeOk, flushOk) IN
            /\ upd' = r.upd
            /\ rundata' = r.rundata
            /\ chip' = r.chip
            /\ started' =
                    LET failed == started.failed \/ r.removeFailed
                                    \/ (r.callback /\ s_fUpdateThroughConfigFile /\ io = "open fails") IN
                    IF r.rv = "RC_SUCCESS" /\ r.upd.unReturnCode = "RC_SUCCESS"
                    THEN [any |-> FALSE, config |-> FALSE, failed |-> failed]
                    ELSE [any |-> started.any \/ r.callback,
                          config |-> started.config \/ (r.callback /\ s_fUpdateThroughConfigFile),
                          failed |-> failed]
            /\ ret' = [Ret("UpdateFirmware", r.rv) EXCEPT
                            !.cmds = r.cmds, !.events = r.events,
                            !.transfer = r.transfer, !.transferRc = r.transferRc,
                            !.callback = r.callback, !.io = io,
                            !.markerAfterTransfer = r.markerAfterTransfer,
                            !.removeFailed = r.removeFailed, !.flushes = r.flushes,
                            !.flushFailed = r.flushFailed, !.data = r.data]
        /\ UNCHANGED <<props, s_fUpdateThroughConfigFile, phases, clear, tpmio>>

----------------------------------------------------------------------------
(* PropertyStorage (spec 4.8): add fails if the key exists, change if it does not *)

PropertyStorage_Exists(p, key) == key \in DOMAIN p

PropertyStorage_Add(p, key, value) == [k \in DOMAIN p \cup {key} |-> IF k = key THEN value ELSE p[k]]

----------------------------------------------------------------------------
(* CommandFlow_TpmUpdate_Parse *)

\* PLATFORM_STRING_IS_NULL_OR_EMPTY
IsNullOrEmpty(str) == str = <<>>

\* Variant: an add replaces the value of a property that exists
ParseAdd_Overwrite(p, key, value) == [rc |-> "RC_SUCCESS", props |-> PropertyStorage_Add(p, key, value)]

\* Adds the property when it does not exist yet; the result is the return value
\* (unReturnValue is still RC_E_FAIL when an add fails) and the property bag
ParseAdd(p, key, value) ==
    IF PropertyStorage_Exists(p, key) THEN [rc |-> "RC_E_FAIL", props |-> p]
    ELSE [rc |-> "RC_SUCCESS", props |-> PropertyStorage_Add(p, key, value)]

\* The characters of the names of the config file without their case
CaseFold(c) ==
    CASE c \in {"UpdateType", "UPDATETYPE"} -> "updatetype"
      [] c \in {"TargetFirmware", "TARGETFIRMWARE"} -> "targetfirmware"
      [] c \in {"FirmwareFolder", "FIRMWAREFOLDER"} -> "firmwarefolder"
      [] c \in {"TPM12"} -> "tpm12"
      [] c \in {"TPM20"} -> "tpm20"
      [] c \in {"tpm12-PP", "TPM12-PP"} -> "tpm12-pp"
      [] c \in {"TPM12-TAKEOWNERSHIP"} -> "tpm12-takeownership"
      [] c \in {"TPM20-EMPTYPLATFORMAUTH"} -> "tpm20-emptyplatformauth"
      [] c \in {"version_SLB966x", "VERSION_SLB966X"} -> "version_slb966x"
      [] c \in {"version_SLB9670", "VERSION_SLB9670"} -> "version_slb9670"
      [] c \in {"PATH"} -> "path"
      [] OTHER -> c

\* 0 == Platform_StringCompare(a, b, count, PfCaseInsensitive), the count covering
\* the strings
StringCompareIsZero(a, b, fCaseInsensitive) ==
    IF fCaseInsensitive
    THEN Len(a) = Len(b) /\ \A i \in DOMAIN a : CaseFold(a[i]) = CaseFold(b[i])
    ELSE a = b

\* Variant: every section is taken for the one looked for
IsSection_Any(t, name) == TRUE

IsSection(t, name) == StringCompareIsZero(t.section, <<name>>, TRUE)
IsKey(t, name) == StringCompareIsZero(t.key, <<name>>, TRUE)
IsValue(t, name) == StringCompareIsZero(t.value, <<name>>, TRUE)

ParseOk(p) == [rc |-> "RC_SUCCESS", props |-> p]

\* Section Update Type: "Check setting tpm12", then "Check setting tpm20"
Parse_UpdateType(p, t) ==
    LET a == IF IsKey(t, "tpm12")
             THEN IF IsValue(t, "tpm12-PP")
                  THEN ParseAdd(p, "PROPERTY_CONFIG_FILE_UPDATE_TYPE12", "UPDATE_TYPE_TPM12_DEFERREDPP")
                  ELSE IF IsValue(t, "tpm12-takeownership")
                  THEN ParseAdd(p, "PROPERTY_CONFIG_FILE_UPDATE_TYPE12", "UPDATE_TYPE_TPM12_TAKEOWNERSHIP")
                  ELSE [rc |-> "RC_E_INVALID_SETTING", props |-> p]
             ELSE ParseOk(p) IN
    IF a.rc # "RC_SUCCESS" THEN a
    ELSE IF IsKey(t, "tpm20")
    THEN IF IsValue(t, "tpm20-emptyplatformauth")
         THEN ParseAdd(a.props, "PROPERTY_CONFIG_FILE_UPDATE_TYPE20", "UPDATE_TYPE_TPM20_EMPTYPLATFORMAUTH")
         ELSE [rc |-> "RC_E_INVALID_SETTING", props |-> a.props]
    ELSE a

\* Section Target Firmware: "Check setting versionLPC", then "Check setting versionSPI"
Parse_TargetFirmware(p, t) ==
    LET a == IF IsKey(t, "version_SLB966x")
             THEN ParseAdd(p, "PROPERTY_CONFIG_TARGET_FIRMWARE_VERSION_LPC", t.value)
             ELSE ParseOk(p) IN
    IF a.rc # "RC_SUCCESS" THEN a
    ELSE IF IsKey(t, "version_SLB9670")
    THEN ParseAdd(a.props, "PROPERTY_CONFIG_TARGET_FIRMWARE_VERSION_SPI", t.value)
    ELSE a

\* Section Firmware Folder
Parse_FirmwareFolder(p, t) ==
    IF IsKey(t, "path") THEN ParseAdd(p, "PROPERTY_CONFIG_FIRMWARE_FOLDER_PATH", t.value)
    ELSE ParseOk(p)

\* One section/key/value triple of the config file.  The result is the return
\* value and the property bag.  The block of section UpdateType ends the function;
\* the block of section TargetFirmware falls through to the test for section
\* FirmwareFolder.
Parse(p, t) ==
    IF IsNullOrEmpty(t.section) \/ IsNullOrEmpty(t.key) \/ IsNullOrEmpty(t.value)
    THEN [rc |-> "RC_E_BAD_PARAMETER", props |-> p]
    ELSE IF IsSection(t, "UpdateType") THEN Parse_UpdateType(p, t)
    ELSE LET a == IF IsSection(t, "TargetFirmware") THEN Parse_TargetFirmware(p, t) ELSE ParseOk(p) IN
         IF a.rc # "RC_SUCCESS" THEN a
         ELSE IF IsSection(t, "FirmwareFolder") THEN Parse_FirmwareFolder(a.props, t)
         ELSE a

(* CommandFlow_TpmUpdate_FinalizeParsing *)

\* Variant: the firmware folder is not mandatory
MandatoryProperties_NoFolder ==
    <<"PROPERTY_CONFIG_FILE_UPDATE_TYPE12", "PROPERTY_CONFIG_FILE_UPDATE_TYPE20",
      "PROPERTY_CONFIG_TARGET_FIRMWARE_VERSION_LPC", "PROPERTY_CONFIG_TARGET_FIRMWARE_VERSION_SPI">>

MandatoryProperties ==
    <<"PROPERTY_CONFIG_FILE_UPDATE_TYPE12", "PROPERTY_CONFIG_FILE_UPDATE_TYPE20",
      "PROPERTY_CONFIG_TARGET_FIRMWARE_VERSION_LPC", "PROPERTY_CONFIG_TARGET_FIRMWARE_VERSION_SPI",
      "PROPERTY_CONFIG_FIRMWARE_FOLDER_PATH">>

FinalizeParsing(PunReturnValue, p) ==
    IF PunReturnValue # "RC_SUCCESS" THEN PunReturnValue
    ELSE IF \E i \in DOMAIN MandatoryProperties : ~PropertyStorage_Exists(p, MandatoryProperties[i])
    THEN "RC_E_INVALID_SETTING"
    ELSE "RC_SUCCESS"

(* Config_ParseCustom (spec 6, Config file): the tokenizer calls back for each triple
   in file order, stops at the first callback that fails, then finalizes *)

RECURSIVE ParseTriples(_, _)
ParseTriples(p, triples) ==
    IF triples = <<>> THEN [rc |-> "RC_SUCCESS", props |-> p]
    ELSE LET r == Parse(p, Head(triples)) IN
         IF r.rc # "RC_SUCCESS" THEN r ELSE ParseTriples(r.props, Tail(triples))

Config_ParseCustom(p, triples) ==
    LET r == ParseTriples(p, triples) IN [rc |-> FinalizeParsing(r.rc, r.props), props |-> r.props]

----------------------------------------------------------------------------
(* Config files *)

Triple(section, key, value) == [section |-> <<section>>, key |-> <<key>>, value |-> value]

\* A complete config file: TPM1.2 chips are updated with physical presence, LPC
\* chips to 5.0, SPI chips to 7.1, images in the folder fw next to the config file
CompleteConfig ==
    <<Triple("UpdateType", "tpm12", <<"tpm12-PP">>),
      Triple("UpdateType", "tpm20", <<"tpm20-emptyplatformauth">>),
      Triple("TargetFirmware", "version_SLB966x", <<"5", ".", "0">>),
      Triple("TargetFirmware", "version_SLB9670", <<"7", ".", "1">>),
      Triple("FirmwareFolder", "path", <<"fw">>)>>

\* The config files of the runs: the complete one, and one without a firmware folder
ConfigFiles == {CompleteConfig, SubSeq(CompleteConfig, 1, 4)}

----------------------------------------------------------------------------
(* CommandFlow_TpmUpdate_ProceedUpdateConfig *)

\* The index (from 0) of the last path separator, 0 when there is none
RECURSIVE LastFolderIndex(_, _, _)
LastFolderIndex(path, unIndex, unLastFolderIndex) ==
    IF unIndex >= Len(path) THEN unLastFolderIndex
    ELSE LastFolderIndex(path, unIndex + 1,
                         IF path[unIndex + 1] \in {"\\", "/"} THEN unIndex ELSE unLastFolderIndex)

\* Variant: the root folder is not kept
ConfigFolder_NoRoot(wszConfigFilePath) ==
    LET l == LastFolderIndex(wszConfigFilePath, 0, 0) IN
    IF l = 0 THEN <<".">> ELSE SubSeq(wszConfigFilePath, 1, l)

\* "Cut off file part": the folder of the config file
ConfigFolder(wszConfigFilePath) ==
    LET l == LastFolderIndex(wszConfigFilePath, 0, 0) IN
    IF l = 0
    THEN IF wszConfigFilePath[1] = "/" THEN <<"/">> ELSE <<".">>
    ELSE SubSeq(wszConfigFilePath, 1, l)

\* Platform_StringConcatenatePaths: the two parts joined by one separator
ConcatenatePaths(a, b) == IF a[Len(a)] \in {"\\", "/"} THEN a \o b ELSE a \o <<"/">> \o b

\* TPM_FIRMWARE_FILE_NAME_PATTERN L"%ls_%ls_to_%ls_%ls.BIN"
FirmwareFileName(source, version, target, targetVersion) ==
    <<source, "_">> \o version \o <<"_to_", target, "_">> \o targetVersion \o <<".BIN">>

\* The path of the firmware image: config folder, firmware folder unless it is the
\* actual folder, file name
FirmwareFilePath(wszConfigFilePath, folder, name) ==
    LET dir == ConfigFolder(wszConfigFilePath) IN
    IF /\ ~StringCompareIsZero(folder, <<".">>, FALSE)
       /\ ~StringCompareIsZero(folder, <<".", "/">>, FALSE)
       /\ ~StringCompareIsZero(folder, <<".", "\\">>, FALSE)
    THEN ConcatenatePaths(ConcatenatePaths(dir, folder), name)
    ELSE ConcatenatePaths(dir, name)

\* Variant: every file is found
FileIO_Exists_Always(disk, path) == TRUE

\* FileIO_Exists for an image path: the disk is the set of folders that hold the
\* firmware images; the path names a file directly in one of them
FileIO_Exists(disk, path) ==
    \E d \in disk : \E k \in 1..Len(path) :
        /\ \A i \in k..Len(path) : path[i] \notin {"\\", "/"}
        /\ path = ConcatenatePaths(d, SubSeq(path, k, Len(path)))

\* The disks of the runs: without images, and with the images in folder fw next to
\* the config file
Disks == {{}, {<<"d", "/", "fw">>}}

\* Variant: only version names 6.x are taken for the SPI bus
IsSpi_SixOnly(version) == Len(version) >= 2 /\ version[1] = "6" /\ version[2] = "."

IsSpi(version) == Len(version) >= 2 /\ version[1] \in {"6", "7"} /\ version[2] = "."
IsLpc(version) == Len(version) >= 2 /\ version[1] \in {"4", "5"} /\ version[2] = "."
IsTpm12Version(version) == Len(version) >= 2 /\ version[1] \in {"4", "6"} /\ version[2] = "."
IsTpm20Version(version) == Len(version) >= 2 /\ version[1] \in {"5", "7"} /\ version[2] = "."

\* The characters of the buffer from index unIndex (from 0) up to the end of the line
RECURSIVE LineFrom(_, _)
LineFrom(buffer, unIndex) ==
    IF unIndex >= Len(buffer) \/ buffer[unIndex + 1] = "\n" THEN <<>>
    ELSE <<buffer[unIndex + 1]>> \o LineFrom(buffer, unIndex + 1)

\* Utility_StringGetLine on the content of the run data file with *PpunIndex 0: the
\* first line without its line end, or RC_E_END_OF_STRING when the buffer is used up
StringGetLine(content) ==
    IF content = <<>> THEN [rc |-> "RC_E_END_OF_STRING", line |-> <<>>]
    ELSE [rc |-> "RC_SUCCESS", line |-> LineFrom(content, 0)]

\* Variant: the entry leaves the inner return code as it is
ProceedUpdateConfig_Enter_KeepCode(u) ==
    [u EXCEPT !.unSubType = "STRUCT_SUBTYPE_IS_UPDATABLE",
              !.unNewFirmwareValid = "GENERIC_TRISTATE_STATE_NA"]

\* The record on entry, after "Set TpmUpdate structure sub type and return value"
ProceedUpdateConfig_Enter(u) ==
    [u EXCEPT !.unSubType = "STRUCT_SUBTYPE_IS_UPDATABLE",
              !.unNewFirmwareValid = "GENERIC_TRISTATE_STATE_NA",
              !.unReturnCode = "RC_E_FAIL"]

\* Variant: the versions are never found equal
IsUpToDate_Never(wszTargetVersion, wszVersionName) == FALSE

\* "Check if firmware is already up to date":
\* 0 == Platform_StringCompare(wszTargetVersion, PpTpmUpdate->wszVersionName, ...)
IsUpToDate(wszTargetVersion, wszVersionName) ==
    StringCompareIsZero(wszTargetVersion, wszVersionName, FALSE)

\* Variant: the update type for TPM2.0 is taken for every chip
UpdateTypeProperty_Tpm20(attribs) == "PROPERTY_CONFIG_FILE_UPDATE_TYPE20"

\* "Get config file TPM update type depending on the source family version"
UpdateTypeProperty(attribs) ==
    IF attribs.tpm12 THEN "PROPERTY_CONFIG_FILE_UPDATE_TYPE12" ELSE "PROPERTY_CONFIG_FILE_UPDATE_TYPE20"

\* The chip is not in boot loader mode: select the image for the chip's version.
\* q: the property bag after parsing; disk: the folders that hold images.
ProceedUpdateConfig_Select(u0, q, flag, wszConfigFilePath, disk) ==
    LET fail == [upd |-> u0, rv |-> "RC_E_FAIL", props |-> q, flag |-> flag]
        version == u0.wszVersionName IN
    IF ~IsSpi(version) /\ ~IsLpc(version) THEN [fail EXCEPT !.rv = "RC_E_UNSUPPORTED_CHIP"]
    ELSE LET key == IF IsSpi(version) THEN "PROPERTY_CONFIG_TARGET_FIRMWARE_VERSION_SPI"
                    ELSE "PROPERTY_CONFIG_TARGET_FIRMWARE_VERSION_LPC" IN
    IF ~PropertyStorage_Exists(q, key) THEN fail
    ELSE LET wszTargetVersion == q[key] IN
    IF IsUpToDate(wszTargetVersion, version)
    THEN [fail EXCEPT !.upd = [u0 EXCEPT !.unNewFirmwareValid = "GENERIC_TRISTATE_STATE_NO",
                                         !.unReturnCode = "RC_E_ALREADY_UP_TO_DATE"],
                      !.rv = "RC_SUCCESS"]
    ELSE IF ~PropertyStorage_Exists(q, "PROPERTY_CONFIG_FIRMWARE_FOLDER_PATH") THEN fail
    ELSE IF ~u0.sTpmState.tpm12 /\ ~u0.sTpmState.tpm20 THEN fail
    ELSE IF ~IsTpm12Version(wszTargetVersion) /\ ~IsTpm20Version(wszTargetVersion)
    THEN [fail EXCEPT !.rv = "RC_E_INVALID_SETTING"]
    ELSE LET name == FirmwareFileName(IF u0.sTpmState.tpm12 THEN "TPM12" ELSE "TPM20", version,
                                      IF IsTpm12Version(wszTargetVersion) THEN "TPM12" ELSE "TPM20",
                                      wszTargetVersion)
             u1 == [u0 EXCEPT !.wszUsedFirmwareImage = name]
             wszFirmwareFilePath == FirmwareFilePath(wszConfigFilePath,
                                                     q["PROPERTY_CONFIG_FIRMWARE_FOLDER_PATH"], name)
             typeKey == UpdateTypeProperty(u0.sTpmState) IN
    IF ~FileIO_Exists(disk, wszFirmwareFilePath)
    THEN [fail EXCEPT !.upd = u1, !.rv = "RC_E_FIRMWARE_UPDATE_NOT_FOUND"]
    ELSE IF ~PropertyStorage_Exists(q, typeKey) THEN [fail EXCEPT !.upd = u1]
    ELSE IF ~PropertyStorage_Exists(q, "PROPERTY_UPDATE_TYPE") THEN [fail EXCEPT !.upd = u1]
    ELSE LET q1 == [q EXCEPT !["PROPERTY_UPDATE_TYPE"] = q[typeKey]] IN
    IF PropertyStorage_Exists(q1, "PROPERTY_FIRMWARE_PATH") THEN [fail EXCEPT !.upd = u1, !.props = q1]
    ELSE [upd |-> [u1 EXCEPT !.unReturnCode = "RC_SUCCESS"], rv |-> "RC_SUCCESS",
          props |-> PropertyStorage_Add(q1, "PROPERTY_FIRMWARE_PATH", wszFirmwareFilePath),
          flag |-> TRUE]

\* Variant: a missing run data file is read as an empty one
ProceedUpdateConfig_Resume_MissingIsEmpty(u0, q, flag, file, readOk) ==
    LET fail == [upd |-> u0, rv |-> "RC_E_FAIL", props |-> q, flag |-> flag] IN
    IF ~readOk THEN fail
    ELSE LET l == StringGetLine(file.content) IN
    IF l.rc # "RC_SUCCESS"
    THEN [fail EXCEPT !.rv = IF l.rc = "RC_E_END_OF_STRING" THEN "RC_SUCCESS" ELSE l.rc]
    ELSE IF PropertyStorage_Exists(q, "PROPERTY_FIRMWARE_PATH") THEN fail
    ELSE [upd |-> [u0 EXCEPT !.unReturnCode = "RC_SUCCESS"], rv |-> "RC_SUCCESS",
          props |-> PropertyStorage_Add(q, "PROPERTY_FIRMWARE_PATH", l.line), flag |-> flag]

\* The chip is in boot loader mode: the image named in the run data file is used.
\* readOk: FileIO_ReadFileToStringBuffer succeeds.
ProceedUpdateConfig_Resume(u0, q, flag, file, readOk) ==
    LET fail == [upd |-> u0, rv |-> "RC_E_FAIL", props |-> q, flag |-> flag] IN
    IF ~file.exists THEN [fail EXCEPT !.rv = "RC_E_RESUME_RUNDATA_NOT_FOUND"]
    ELSE IF ~readOk THEN fail
    ELSE LET l == StringGetLine(file.content) IN
    IF l.rc # "RC_SUCCESS"
    THEN [fail EXCEPT !.rv = IF l.rc = "RC_E_END_OF_STRING" THEN "RC_SUCCESS" ELSE l.rc]
    ELSE IF PropertyStorage_Exists(q, "PROPERTY_FIRMWARE_PATH") THEN fail
    ELSE [upd |-> [u0 EXCEPT !.unReturnCode = "RC_SUCCESS"], rv |-> "RC_SUCCESS",
          props |-> PropertyStorage_Add(q, "PROPERTY_FIRMWARE_PATH", l.line), flag |-> flag]

\* cfg: the config file found at the path (<<>>: no file); disk, readOk: as above.
\* The result is the record, the envelope return value, the property bag and the
\* flag s_fUpdateThroughConfigFile.
ProceedUpdateConfig(u, p, flag, file, cfg, disk, readOk) ==
    LET u0 == ProceedUpdateConfig_Enter(u)
        fail == [upd |-> u0, rv |-> "RC_E_FAIL", props |-> p, flag |-> flag] IN
    IF ~PropertyStorage_Exists(p, "PROPERTY_CONFIG_FILE_PATH") THEN fail
    ELSE IF cfg = <<>> THEN [fail EXCEPT !.rv = "RC_E_INVALID_CONFIG_OPTION"]
    ELSE LET parsed == Config_ParseCustom(p, cfg) IN
    IF parsed.rc # "RC_SUCCESS" THEN [fail EXCEPT !.rv = parsed.rc, !.props = parsed.props]
    ELSE IF ~u0.sTpmState.bootLoader
    THEN ProceedUpdateConfig_Select(u0, parsed.props, flag, p["PROPERTY_CONFIG_FILE_PATH"], disk)
    ELSE ProceedUpdateConfig_Resume(u0, parsed.props, flag, file, readOk)

\* One call with the environment's answers: the config file, the disk, the read
ProceedUpdateConfigWith(cfg, disk, readOk, history) ==
    /\ \E r \in {ProceedUpdateConfig(upd, props, s_fUpdateThroughConfigFile, rundata, cfg, disk, readOk)} :
        /\ upd' = r.upd
        /\ props' = r.props
        /\ s_fUpdateThroughConfigFile' = r.flag
        /\ ret' = [Ret("ProceedUpdateConfig", r.rv) EXCEPT
                        !.env = IF history
                                 THEN [cfg |-> cfg, disk |-> disk, readOk |-> readOk]
                                 ELSE <<>>]
    /\ phases' = phases \cup {"updatable check"}
    /\ UNCHANGED <<rundata, chip, started, clear, tpmio>>

CallProceedUpdateConfig(history) ==
    \E cfg \in ConfigFiles \cup {<<>>}, disk \in Disks, readOk \in BOOLEAN :
        /\ upd.sTpmState.bootLoader => disk # {}
        /\ ~upd.sTpmState.bootLoader => readOk
        /\ ProceedUpdateConfigWith(cfg, disk, readOk, history)

----------------------------------------------------------------------------
(* CommandFlow_Tpm12ClearOwnership_Execute *)

\* Variant: the test for a TPM1.2 comes before the test for an owned TPM1.2
ClearOwnershipMode_NoOwnerFirst(attribs) ==
    IF attribs.tpm12 THEN "RC_E_TPM12_NO_OWNER"
    ELSE IF attribs.tpm20 THEN "RC_E_TPM_NOT_SUPPORTED_FEATURE"
    ELSE IF ~attribs.infineon THEN "RC_E_NO_IFX_TPM"
    ELSE "RC_E_UNSUPPORTED_CHIP"

\* Check TPM operation mode: RC_SUCCESS to continue
ClearOwnershipMode(attribs) ==
    IF attribs.tpm12 /\ attribs.tpm12owner THEN "RC_SUCCESS"
    ELSE IF attribs.tpm20 THEN "RC_E_TPM_NOT_SUPPORTED_FEATURE"
    ELSE IF attribs.tpm12 THEN "RC_E_TPM12_NO_OWNER"
    ELSE IF ~attribs.infineon THEN "RC_E_NO_IFX_TPM"
    ELSE "RC_E_UNSUPPORTED_CHIP"

ClearResults == {"RC_SUCCESS", "TPM_AUTHFAIL|RC_TPM_MASK", "TPM_FAIL|RC_TPM_MASK", "RC_E_INTERNAL"}

\* The return values of FirmwareUpdate_CalculateState, FirmwareUpdate_CheckOwnerAuthorization,
\* TSS_TPM_OIAP and TSS_TPM_OwnerClear, when reached
ClearSteps ==
    {e \in [calc : {"RC_SUCCESS", "RC_E_INTERNAL"}, check : ClearResults, oiap : ClearResults,
            clear : ClearResults] :
        /\ e.calc # "RC_SUCCESS" => e.check = "RC_SUCCESS"
        /\ (e.calc # "RC_SUCCESS" \/ e.check # "RC_SUCCESS") => e.oiap = "RC_SUCCESS"
        /\ (e.calc # "RC_SUCCESS" \/ e.check # "RC_SUCCESS" \/ e.oiap # "RC_SUCCESS")
                => e.clear = "RC_SUCCESS"}

\* Variant: the value of the owner authorization check is kept as it is
MapOwnerAuthorization_Unmapped(unReturnValue) == unReturnValue

\* The value stored when FirmwareUpdate_CheckOwnerAuthorization fails
MapOwnerAuthorization(unReturnValue) ==
    IF IsTpmCode(unReturnValue, TPM_AUTHFAIL) THEN "RC_E_TPM12_INVALID_OWNERAUTH" ELSE unReturnValue

\* attribs: the state FirmwareUpdate_CalculateState finds.  The result: the inner
\* return code stored in the record, the envelope return value, commands sent, the
\* chip's sessions afterwards, the handle TSS_TPM_OIAP returned (0: none), and the
\* functions called, in order.
Tpm12ClearOwnership_Execute(sessions, attribs, e) ==
    LET h == FreeHandle(sessions)
        none == [rc |-> "RC_E_FAIL", rv |-> "RC_SUCCESS", cmds |-> <<>>, sessions |-> sessions,
                 oiap |-> 0, calls |-> <<"FirmwareUpdate_CalculateState">>]
        checked == [none EXCEPT !.calls = @ \o <<"FirmwareUpdate_CheckOwnerAuthorization">>] IN
    IF e.calc # "RC_SUCCESS" THEN [none EXCEPT !.rc = e.calc]
    ELSE IF ClearOwnershipMode(attribs) # "RC_SUCCESS" THEN [none EXCEPT !.rc = ClearOwnershipMode(attribs)]
    ELSE IF e.check # "RC_SUCCESS"
    THEN [checked EXCEPT !.rc = MapOwnerAuthorization(e.check)]
    ELSE IF e.oiap # "RC_SUCCESS"
    THEN [checked EXCEPT !.rc = e.oiap, !.cmds = <<"TPM_OIAP">>, !.calls = @ \o <<"TSS_TPM_OIAP">>]
    ELSE [rc |-> e.clear, rv |-> "RC_SUCCESS", cmds |-> <<"TPM_OIAP", "TPM_OwnerClear">>,
          sessions |-> AfterAuthorizedCommand(sessions \cup {h}, h, e.clear), oiap |-> h,
          calls |-> checked.calls \o <<"TSS_TPM_OIAP", "TSS_TPM_OwnerClear">>]

ClearSucceeds ==
    [calc |-> "RC_SUCCESS", check |-> "RC_SUCCESS", oiap |-> "RC_SUCCESS", clear |-> "RC_SUCCESS"]

CallTpm12ClearOwnership(history) ==
    \E e \in ClearSteps :
        /\ (ClearOwnershipMode(upd.sTpmState) # "RC_SUCCESS") => e \in {ClearSucceeds, [ClearSucceeds EXCEPT !.calc = "RC_E_INTERNAL"]}
        /\ HasFreeSlot(chip.sessions) \/ e.oiap # "RC_SUCCESS"
        /\ \E r \in {Tpm12ClearOwnership_Execute(chip.sessions, upd.sTpmState, e)} :
            /\ clear' = [unReturnCode |-> r.rc]
            /\ chip' = [chip EXCEPT !.sessions = r.sessions]
            /\ ret' = [Ret("Tpm12ClearOwnership_Execute", r.rv) EXCEPT
                            !.cmds = r.cmds, !.opened = IF r.oiap = 0 THEN {} ELSE {r.oiap},
                            !.env = IF history THEN [steps |-> e, calls |-> r.calls] ELSE <<>>]
        /\ UNCHANGED <<upd, props, s_fUpdateThroughConfigFile, rundata, started, phases, tpmio>>

----------------------------------------------------------------------------
(* The tool (spec 4.7, Update Driver): a run probes the chip, then calls the
   phase functions in order and stops at the first phase whose envelope value or
   inner return code is not RC_SUCCESS *)

Succeeded(rv, u) == rv = "RC_SUCCESS" /\ u.unReturnCode = "RC_SUCCESS"

ToolStart ==
    /\ pc = "exit"
    /\ \E req \in Requests, probe \in Probes :
        /\ StartRun(req, probe)
        /\ pc' = IF req = ClearOwnershipRequest THEN "clear"
                 ELSE IF req.updateType = "UPDATE_TYPE_CONFIG_FILE" THEN "config" ELSE "check"

ToolProceedUpdateConfig ==
    /\ pc = "config"
    /\ CallProceedUpdateConfig(TRUE)
    /\ pc' = IF Succeeded(ret'.rv, upd') THEN "check" ELSE "done"

ToolIsFirmwareUpdatable ==
    /\ pc = "check"
    /\ CallIsFirmwareUpdatable(TRUE)
    /\ pc' = IF Succeeded(ret'.rv, upd') THEN "prepare" ELSE "done"

ToolPrepareFirmwareUpdate ==
    /\ pc = "prepare"
    /\ CallPrepareFirmwareUpdate(TRUE)
    /\ pc' = IF Succeeded(ret'.rv, upd') THEN "update" ELSE "done"

ToolUpdateFirmware ==
    /\ pc = "update"
    /\ CallUpdateFirmware
    /\ pc' = "done"

ToolTpm12ClearOwnership ==
    /\ pc = "clear"
    /\ CallTpm12ClearOwnership(TRUE)
    /\ pc' = "done"

ToolExit ==
    /\ pc = "done"
    /\ ExitRun
    /\ pc' = "exit"

Next ==
    \/ ToolStart
    \/ ToolProceedUpdateConfig
    \/ ToolIsFirmwareUpdatable
    \/ ToolPrepareFirmwareUpdate
    \/ ToolUpdateFirmware
    \/ ToolTpm12ClearOwnership
    \/ ToolExit

\* Any sequence of runs of the tool on one host
Spec == Init /\ [][Next]_vars

----------------------------------------------------------------------------
(* One process whose caller may call the phase functions in any order, any number
   of times, on its one record *)

\* What earlier runs can have left on the host: nothing, or an interrupted update
\* (the chip in boot loader mode, the run data file naming the image)
HostStates ==
    {[bootLoader |-> FALSE, rundata |-> NoFile],
     [bootLoader |-> TRUE, rundata |-> [exists |-> TRUE, content |-> <<"f">>]]}

CallerInit ==
    /\ \E h \in HostStates :
        /\ rundata = h.rundata
        /\ chip = [bootLoader |-> h.bootLoader, sessions |-> {}]
        /\ started = [any |-> h.rundata.exists, config |-> h.rundata.exists, failed |-> FALSE]
    /\ upd = InitialUpdate(Probe(NoAttribs, 0))
    /\ props = <<>>
    /\ s_fUpdateThroughConfigFile = FALSE
    /\ phases = {}
    /\ clear = [unReturnCode |-> "RC_E_FAIL"]
    /\ ret = Ret("none", "RC_SUCCESS")
    /\ pc = "exit"
    /\ tpmio = IoInitial

CallerStart == (\E req \in UpdateRequests, probe \in Probes : StartRun(req, probe)) /\ UNCHANGED pc
AnyProceedUpdateConfig == ret.fn # "none" /\ CallProceedUpdateConfig(FALSE) /\ UNCHANGED pc
AnyIsFirmwareUpdatable == ret.fn # "none" /\ CallIsFirmwareUpdatable(FALSE) /\ UNCHANGED pc
AnyPrepareFirmwareUpdate == ret.fn # "none" /\ CallPrepareFirmwareUpdate(FALSE) /\ UNCHANGED pc
AnyUpdateFirmware == ret.fn # "none" /\ CallUpdateFirmware /\ UNCHANGED pc

CallerNext ==
    \/ CallerStart
    \/ AnyProceedUpdateConfig
    \/ AnyIsFirmwareUpdatable
    \/ AnyPrepareFirmwareUpdate
    \/ AnyUpdateFirmware

CallerSpec == CallerInit /\ [][CallerNext]_vars

----------------------------------------------------------------------------
(* One call of a phase function that takes a fresh record (ProceedUpdateConfig,
   IsFirmwareUpdatable), for every probed state, version name, remaining-updates
   count and update request *)

\* The version names a chip can report, with the target versions of the config
\* file among them, and no name at all
WideVersionNames == VersionNames \cup {<<"7", ".", "1">>, <<>>}

WideProbes ==
    {[attribs |-> a, version |-> v, remaining |-> r] :
        a \in TpmStates, v \in WideVersionNames, r \in 0..MaxRemainingUpdates}

\* The run data file a chip in boot-loader mode can find: none, one that names the
\* image, an empty one
WideRunData == {NoFile, [exists |-> TRUE, content |-> <<"f">>], [exists |-> TRUE, content |-> <<>>]}

WideInit ==
    /\ \E req \in {r \in UpdateRequests : ~r.dryRun}, probe \in WideProbes :
        /\ upd = InitialUpdate(probe)
        /\ props = CliProperties(req)
        /\ chip = [bootLoader |-> probe.attribs.bootLoader, sessions |-> {}]
    /\ rundata \in WideRunData
    /\ ~chip.bootLoader => rundata = NoFile
    /\ started = [any |-> rundata.exists, config |-> rundata.exists, failed |-> FALSE]
    /\ s_fUpdateThroughConfigFile = FALSE
    /\ phases = {}
    /\ clear = [unReturnCode |-> "RC_E_FAIL"]
    /\ ret = Ret("StartRun", "RC_SUCCESS")
    /\ pc = "exit"
    /\ tpmio = IoInitial

FirstProceedUpdateConfig == ret.fn = "StartRun" /\ CallProceedUpdateConfig(TRUE) /\ UNCHANGED pc
FirstIsFirmwareUpdatable == ret.fn = "StartRun" /\ CallIsFirmwareUpdatable(TRUE) /\ UNCHANGED pc

WideNext ==
    \/ FirstProceedUpdateConfig
    \/ FirstIsFirmwareUpdatable

WideSpec == WideInit /\ [][WideNext]_vars

----------------------------------------------------------------------------
(* One call of ProceedUpdateConfig in the config-file flow on a chip that is not in
   boot-loader mode, for config paths with and without folders, config files with
   several firmware folders and target versions, and disks with the images in
   different folders *)

PathConfigPaths ==
    {<<"c">>, <<"/", "c">>, <<"d", "/", "c">>, <<"/", "d", "/", "c">>, <<"d", "\\", "c">>,
     <<"\\", "c">>}

ConfigWith(folder, lpc, spi) ==
    <<Triple("UpdateType", "tpm12", <<"tpm12-PP">>),
      Triple("UpdateType", "tpm20", <<"tpm20-emptyplatformauth">>),
      Triple("TargetFirmware", "version_SLB966x", lpc),
      Triple("TargetFirmware", "version_SLB9670", spi),
      Triple("FirmwareFolder", "path", folder)>>

PathConfigFiles ==
    {ConfigWith(folder, t[1], t[2]) :
        folder \in {<<"fw">>, <<".">>, <<".", "/">>, <<".", "\\">>},
        t \in {<<<<"5", ".", "0">>, <<"7", ".", "1">>>>, <<<<"4", ".", "1">>, <<"6", ".", "1">>>>,
               <<<<"9", ".", "0">>, <<"8">>>>}}

PathFolders ==
    {<<".">>, <<"/">>, <<"d">>, <<"/", "d">>,
     <<".", "/", "fw">>, <<"/", "fw">>, <<"d", "/", "fw">>, <<"/", "d", "/", "fw">>}

\* No images, the images in one folder, the images in every folder
PathDisks == {{}, PathFolders} \cup {{d} : d \in PathFolders}

PathProbes ==
    {[attribs |-> a, version |-> v, remaining |-> 1] :
        a \in {x \in TpmStates : ~x.bootLoader},
        v \in {<<"4", ".", "0">>, <<"5", ".", "0">>, <<"6", ".", "0">>, <<"7", ".", "0">>}}

PathInit ==
    /\ \E c \in PathConfigPaths, probe \in PathProbes :
        /\ upd = InitialUpdate(probe)
        /\ props = CliProperties([updateType |-> "UPDATE_TYPE_CONFIG_FILE", firmware |-> <<>>,
                                  config |-> c, dryRun |-> FALSE])
        /\ chip = [bootLoader |-> FALSE, sessions |-> {}]
    /\ rundata = NoFile
    /\ started = NotStarted
    /\ s_fUpdateThroughConfigFile = FALSE
    /\ phases = {}
    /\ clear = [unReturnCode |-> "RC_E_FAIL"]
    /\ ret = Ret("StartRun", "RC_SUCCESS")
    /\ pc = "exit"
    /\ tpmio = IoInitial

PathProceedUpdateConfig ==
    /\ ret.fn = "StartRun"
    /\ \E cfg \in PathConfigFiles, disk \in PathDisks : ProceedUpdateConfigWith(cfg, disk, TRUE, TRUE)
    /\ UNCHANGED pc

PathNext == PathProceedUpdateConfig

PathSpec == PathInit /\ [][PathNext]_vars

----------------------------------------------------------------------------
(* The callbacks of the config parser, called with any triples in any order on the
   property bag of a config-file request *)

ParseSections == {"UpdateType", "UPDATETYPE", "TargetFirmware", "FirmwareFolder", "LOGGING"}
ParseKeys == {"tpm12", "tpm20", "TPM20", "version_SLB966x", "version_SLB9670", "path", "LEVEL"}
ParseValues ==
    {<<"tpm12-PP">>, <<"TPM12-PP">>, <<"tpm12-takeownership">>, <<"tpm20-emptyplatformauth">>,
     <<"5", ".", "0">>}

ParseInputs == {Triple(sec, key, v) : sec \in ParseSections, key \in ParseKeys, v \in ParseValues}

FinalizeCodes == {"RC_SUCCESS", "RC_E_FAIL", "RC_E_INVALID_SETTING", "RC_E_BAD_PARAMETER"}

ParseInit ==
    /\ upd = InitialUpdate(Probe(NoAttribs, 1))
    /\ props = CliProperties([updateType |-> "UPDATE_TYPE_CONFIG_FILE", firmware |-> <<>>,
                              config |-> <<"d", "/", "c">>, dryRun |-> FALSE])
    /\ chip = [bootLoader |-> FALSE, sessions |-> {}]
    /\ rundata = NoFile
    /\ started = NotStarted
    /\ s_fUpdateThroughConfigFile = FALSE
    /\ phases = {}
    /\ clear = [unReturnCode |-> "RC_E_FAIL"]
    /\ ret = Ret("StartRun", "RC_SUCCESS")
    /\ pc = "exit"
    /\ tpmio = IoInitial

CallParse ==
    \E t \in ParseInputs :
        LET r == Parse(props, t) IN
        /\ props' = r.props
        /\ ret' = Ret("Parse", r.rc)
        /\ UNCHANGED <<upd, chip, rundata, started, s_fUpdateThroughConfigFile, phases, clear, pc, tpmio>>

CallFinalizeParsing ==
    \E PunReturnValue \in FinalizeCodes :
        /\ ret' = Ret("FinalizeParsing", FinalizeParsing(PunReturnValue, props))
        /\ UNCHANGED <<upd, props, chip, rundata, started, s_fUpdateThroughConfigFile, phases, clear, pc, tpmio>>

ParseNext ==
    \/ CallParse
    \/ CallFinalizeParsing

ParseSpec == ParseInit /\ [][ParseNext]_vars

----------------------------------------------------------------------------
(* TpmIO: TPMIO_Connect, TPMIO_Disconnect, TPMIO_Transmit, TPMIO_ReadRegister,
   TPMIO_WriteRegister.  Each function yields the return value, the channel and
   the calls it made to the backend and the operating system, in order. *)

AccessModes == {"TPM_DEVICE_ACCESS_DRIVER", "TPM_DEVICE_ACCESS_MEMORY_BASED"}

IoResult(rc, s, calls) == [rc |-> rc, io |-> s, calls |-> calls, value |-> "none"]

\* PropertyStorage_GetUIntegerValueByKey(PROPERTY_TPM_DEVICE_ACCESS_MODE) succeeds
\* with one of the two modes
HasAccessMode(p) ==
    /\ PropertyStorage_Exists(p, "PROPERTY_TPM_DEVICE_ACCESS_MODE")
    /\ p["PROPERTY_TPM_DEVICE_ACCESS_MODE"] \in AccessModes

\* The switch of TPMIO_Connect.  e: the answers of the backend.
Connect_Initialize(p, s, e) ==
    LET mode == p["PROPERTY_TPM_DEVICE_ACCESS_MODE"] IN
    IF mode = "TPM_DEVICE_ACCESS_DRIVER"
    THEN IoResult(e.initialize, [s EXCEPT !.backendOpen = @ \/ e.initialize = "RC_SUCCESS"],
                  <<"DeviceAccessTpmDriver_Initialize">>)
    ELSE IF mode = "TPM_DEVICE_ACCESS_MEMORY_BASED" /\ ~s.arm
    THEN IF s.g_fConnected THEN IoResult("RC_E_ALREADY_CONNECTED", s, <<>>)
         ELSE IF ~PropertyStorage_Exists(p, "Locality") THEN IoResult("RC_E_FAIL", s, <<>>)
         ELSE IF e.initialize # "RC_SUCCESS"
         THEN IoResult(e.initialize, s, <<"DeviceAccess_Initialize">>)
         ELSE LET s1 == [s EXCEPT !.backendOpen = TRUE]
                  calls == <<"DeviceAccess_Initialize", "TIS_IsAccessValid">> IN
              IF e.accessValid # "RC_SUCCESS" THEN IoResult(e.accessValid, s1, calls)
              ELSE IF ~e.bFlag THEN IoResult("RC_E_NOT_READY", s1, calls)
              ELSE IoResult("RC_SUCCESS", s1, calls)
    ELSE IoResult("RC_E_INVALID_SETTING", s, <<>>)

\* Variant: the channel is marked connected before the privileges are dropped
TPMIO_Connect_MarkFirst(p, s, e) ==
    IF ~PropertyStorage_Exists(p, "PROPERTY_TPM_DEVICE_ACCESS_MODE") THEN IoResult("RC_E_INTERNAL", s, <<>>)
    ELSE IF s.g_fConnected THEN IoResult("RC_E_ALREADY_CONNECTED", s, <<>>)
    ELSE LET b == Connect_Initialize(p, s, e)
             c == [b.io EXCEPT !.g_fConnected = TRUE] IN
    IF b.rc # "RC_SUCCESS" THEN b
    ELSE IF ~e.seteuid THEN IoResult("RC_E_INTERNAL", c, b.calls \o <<"seteuid">>)
    ELSE IF ~e.setegid
    THEN IoResult("RC_E_INTERNAL", [c EXCEPT !.euidDropped = TRUE], b.calls \o <<"seteuid", "setegid">>)
    ELSE IoResult("RC_SUCCESS", [c EXCEPT !.euidDropped = TRUE, !.egidDropped = TRUE],
                  b.calls \o <<"seteuid", "setegid">>)

\* TPMIO_Connect.  e: the answers of the backend and of seteuid, setegid.
TPMIO_Connect(p, s, e) ==
    IF ~PropertyStorage_Exists(p, "PROPERTY_TPM_DEVICE_ACCESS_MODE") THEN IoResult("RC_E_INTERNAL", s, <<>>)
    ELSE IF s.g_fConnected THEN IoResult("RC_E_ALREADY_CONNECTED", s, <<>>)
    ELSE LET b == Connect_Initialize(p, s, e) IN
    IF b.rc # "RC_SUCCESS" THEN b
    ELSE IF ~e.seteuid THEN IoResult("RC_E_INTERNAL", b.io, b.calls \o <<"seteuid">>)
    ELSE IF ~e.setegid
    THEN IoResult("RC_E_INTERNAL", [b.io EXCEPT !.euidDropped = TRUE], b.calls \o <<"seteuid", "setegid">>)
    ELSE IoResult("RC_SUCCESS",
                  [b.io EXCEPT !.euidDropped = TRUE, !.egidDropped = TRUE, !.g_fConnected = TRUE],
                  b.calls \o <<"seteuid", "setegid">>)

\* TPMIO_Disconnect.  uninitialize: the answer of the backend.
TPMIO_Disconnect(p, s, uninitialize) ==
    IF ~s.g_fConnected THEN IoResult("RC_E_NOT_CONNECTED", s, <<>>)
    ELSE IF ~HasAccessMode(p) THEN IoResult("RC_E_INTERNAL", s, <<>>)
    ELSE LET closed == [s EXCEPT !.g_fConnected = FALSE, !.backendOpen = uninitialize # "RC_SUCCESS"] IN
    IF p["PROPERTY_TPM_DEVICE_ACCESS_MODE"] = "TPM_DEVICE_ACCESS_MEMORY_BASED"
    THEN IF ~PropertyStorage_Exists(p, "Locality")
         THEN IoResult("RC_E_FAIL", [s EXCEPT !.g_fConnected = FALSE], <<>>)
         ELSE IoResult(uninitialize, closed, <<"DeviceAccess_Uninitialize">>)
    ELSE IoResult(uninitialize, closed, <<"DeviceAccessTpmDriver_Uninitialize">>)

\* Variant: the transmit does not test the connection
TPMIO_Transmit_NoTest(p, s, fNull, transmit) ==
    IF fNull THEN IoResult("RC_E_BAD_PARAMETER", s, <<>>)
    ELSE IF ~HasAccessMode(p) THEN IoResult("RC_E_INTERNAL", s, <<>>)
    ELSE IF p["PROPERTY_TPM_DEVICE_ACCESS_MODE"] = "TPM_DEVICE_ACCESS_MEMORY_BASED"
    THEN IF ~PropertyStorage_Exists(p, "Locality") THEN IoResult("RC_E_FAIL", s, <<>>)
         ELSE IoResult(transmit, s, <<"TIS_TransceiveLPC">>)
    ELSE IoResult(transmit, s, <<"DeviceAccessTpmDriver_Transmit">>)

\* TPMIO_Transmit.  fNull: one of the buffer pointers is NULL; transmit: the answer
\* of the backend.
TPMIO_Transmit(p, s, fNull, transmit) ==
    IF fNull THEN IoResult("RC_E_BAD_PARAMETER", s, <<>>)
    ELSE IF ~s.g_fConnected THEN IoResult("RC_E_NOT_CONNECTED", s, <<>>)
    ELSE IF ~HasAccessMode(p) THEN IoResult("RC_E_INTERNAL", s, <<>>)
    ELSE IF p["PROPERTY_TPM_DEVICE_ACCESS_MODE"] = "TPM_DEVICE_ACCESS_MEMORY_BASED"
    THEN IF ~PropertyStorage_Exists(p, "Locality") THEN IoResult("RC_E_FAIL", s, <<>>)
         ELSE IoResult(transmit, s, <<"TIS_TransceiveLPC">>)
    ELSE IoResult(transmit, s, <<"DeviceAccessTpmDriver_Transmit">>)

\* Variant: the driver mode reads the register as the memory-mapped mode does
TPMIO_ReadRegister_DriverReads(p, s, fNull, byte) ==
    IF fNull THEN IoResult("RC_E_BAD_PARAMETER", s, <<>>)
    ELSE IF ~HasAccessMode(p) THEN IoResult("RC_E_INTERNAL", s, <<>>)
    ELSE [IoResult("RC_SUCCESS", s, <<"DeviceAccess_ReadByte">>) EXCEPT !.value = byte]

\* TPMIO_ReadRegister.  fNull: PpbRegisterValue is NULL; byte: the register's value.
\* value: *PpbRegisterValue after the call ("none": not written).
TPMIO_ReadRegister(p, s, fNull, byte) ==
    IF fNull THEN IoResult("RC_E_BAD_PARAMETER", s, <<>>)
    ELSE IF ~HasAccessMode(p) THEN IoResult("RC_E_INTERNAL", s, <<>>)
    ELSE IF p["PROPERTY_TPM_DEVICE_ACCESS_MODE"] = "TPM_DEVICE_ACCESS_MEMORY_BASED"
    THEN [IoResult("RC_SUCCESS", s, <<"DeviceAccess_ReadByte">>) EXCEPT !.value = byte]
    ELSE [IoResult("RC_E_NOT_SUPPORTED_FEATURE", s, <<>>) EXCEPT !.value = 0]

\* TPMIO_WriteRegister
TPMIO_WriteRegister(p, s) ==
    IF ~HasAccessMode(p) THEN IoResult("RC_E_INTERNAL", s, <<>>)
    ELSE IF p["PROPERTY_TPM_DEVICE_ACCESS_MODE"] = "TPM_DEVICE_ACCESS_MEMORY_BASED"
    THEN IoResult("RC_SUCCESS", s, <<"DeviceAccess_WriteByte">>)
    ELSE IoResult("RC_E_NOT_SUPPORTED_FEATURE", s, <<>>)

(* The device channel of one process, its functions called in any order *)

\* The property bags: the access mode one of the two, another value or not set; the
\* locality set or not
IoProperties ==
    {(IF mode # "none" THEN [k \in {"PROPERTY_TPM_DEVICE_ACCESS_MODE"} |-> mode] ELSE <<>>)
        @@ (IF locality THEN [k \in {"Locality"} |-> 0] ELSE <<>>) :
     mode \in AccessModes \cup {"TPM_DEVICE_ACCESS_NONE", "none"}, locality \in BOOLEAN}

BackendErrors == {"RC_SUCCESS", "RC_E_COMPONENT_NOT_FOUND"}

RegisterValues == {0, 170}

IoInit ==
    /\ upd = InitialUpdate(Probe(NoAttribs, 0))
    /\ props \in IoProperties
    /\ s_fUpdateThroughConfigFile = FALSE
    /\ rundata = NoFile
    /\ chip = [bootLoader |-> FALSE, sessions |-> {}]
    /\ started = NotStarted
    /\ phases = {}
    /\ clear = [unReturnCode |-> "RC_E_FAIL"]
    /\ ret = Ret("none", "RC_SUCCESS")
    /\ pc = "exit"
    /\ \E arm \in BOOLEAN : tpmio = [IoInitial EXCEPT !.arm = arm]

\* The history of a call of the channel: env holds the calls made, the byte written,
\* whether a pointer argument was NULL, and the answers of seteuid and setegid
IoReturn(fn, r, fNull, seteuid, setegid) ==
    [Ret(fn, r.rc) EXCEPT !.env = [calls |-> r.calls, value |-> r.value, fNull |-> fNull,
                                   seteuid |-> seteuid, setegid |-> setegid]]

IoUnchanged == UNCHANGED <<upd, props, s_fUpdateThroughConfigFile, rundata, chip, started, phases, clear, pc>>

IoConnect ==
    \E initialize \in BackendErrors, accessValid \in BackendErrors, bFlag \in BOOLEAN,
       seteuid \in BOOLEAN, setegid \in BOOLEAN :
        LET r == TPMIO_Connect(props, tpmio, [initialize |-> initialize, accessValid |-> accessValid,
                                          bFlag |-> bFlag, seteuid |-> seteuid, setegid |-> setegid]) IN
        /\ tpmio' = [r.io EXCEPT !.window = @ \/ r.rc = "RC_SUCCESS"]
        /\ ret' = IoReturn("TPMIO_Connect", r, FALSE, seteuid, setegid)
        /\ IoUnchanged

IoDisconnect ==
    \E uninitialize \in BackendErrors :
        LET r == TPMIO_Disconnect(props, tpmio, uninitialize) IN
        /\ tpmio' = [r.io EXCEPT !.window = FALSE]
        /\ ret' = IoReturn("TPMIO_Disconnect", r, FALSE, TRUE, TRUE)
        /\ IoUnchanged

IoTransmit ==
    \E fNull \in BOOLEAN, transmit \in BackendErrors :
        LET r == TPMIO_Transmit(props, tpmio, fNull, transmit) IN
        /\ tpmio' = r.io
        /\ ret' = IoReturn("TPMIO_Transmit", r, fNull, TRUE, TRUE)
        /\ IoUnchanged

IoReadRegister ==
    \E fNull \in BOOLEAN, byte \in RegisterValues :
        LET r == TPMIO_ReadRegister(props, tpmio, fNull, byte) IN
        /\ tpmio' = r.io
        /\ ret' = IoReturn("TPMIO_ReadRegister", r, fNull, TRUE, TRUE)
        /\ IoUnchanged

IoWriteRegister ==
    LET r == TPMIO_WriteRegister(props, tpmio) IN
    /\ tpmio' = r.io
    /\ ret' = IoReturn("TPMIO_WriteRegister", r, FALSE, TRUE, TRUE)
    /\ IoUnchanged

IoNext ==
    \/ IoConnect
    \/ IoDisconnect
    \/ IoTransmit
    \/ IoReadRegister
    \/ IoWriteRegister

IoSpec == IoInit /\ [][IoNext]_vars

----------------------------------------------------------------------------
(* The command layer of the TPM 2.0 library (MicroTss): every command      *)
(* function marshals its request into rgbRequest, hands it to the device   *)
(* channel once and unmarshals the answer from rgbResponse. Requests and   *)
(* responses are sequences of octets; 32 bit fields are <<upper, lower>>.  *)

\* sizeof(rgbRequest), scaled down so that the largest requests of the model do not fit
MAX_COMMAND_SIZE == 32

\* The constants of the TPM 2.0 library the commands carry
TPM_ST_NO_SESSIONS == 32769
TPM_ST_SESSIONS == 32770
TPM_CC_HierarchyChangeAuth == <<0, 297>>
TPM_CC_Startup == <<0, 324>>
TPM_CC_StartAuthSession == <<0, 374>>
TPM_CC_GetCapability == <<0, 378>>
TPM_CC_GetTestResult == <<0, 380>>
TPM_RC_SUCCESS == <<0, 0>>
TPM_CAP_HANDLES == <<0, 1>>
TPM_CAP_TPM_PROPERTIES == <<0, 6>>
TPM_ALG_NULL == 16

\* The octets of a 16 bit number, of a 32 bit number and of a sized buffer (TPM2B:
\* the size, then that many octets), in network order, and the numbers of octets
UINT16_Octets(v) == <<v \div 256, v % 256>>
UINT32_Octets(v) == UINT16_Octets(v[1]) \o UINT16_Octets(v[2])
TPM2B_Octets(b) == UINT16_Octets(Len(b)) \o b
UINT16_Value(o) == o[1] * 256 + o[2]
UINT32_Value(o) == <<o[1] * 256 + o[2], o[3] * 256 + o[4]>>

\* TPMT_SYM_DEF: the algorithm, and key bits and mode unless the algorithm is TPM_ALG_NULL
TPMT_SYM_DEF_Octets(s) ==
    IF s.algorithm = TPM_ALG_NULL THEN UINT16_Octets(s.algorithm)
    ELSE UINT16_Octets(s.algorithm) \o UINT16_Octets(s.keyBits) \o UINT16_Octets(s.mode)

\* AuthorizationCommandData: session handle, nonce, session attributes, HMAC
AuthorizationCommandData_Octets(a) ==
    UINT32_Octets(a.authHandle) \o TPM2B_Octets(a.nonceCaller)
        \o <<a.sessionAttributes>> \o TPM2B_Octets(a.hmac)

\* The request buffer before the first marshal step: pbBuffer = rgbRequest,
\* nSizeRemaining = sizeof(rgbRequest); rgb holds the octets written so far
EmptyRequest == [rgb |-> <<>>, nSizeRemaining |-> MAX_COMMAND_SIZE, unReturnValue |-> "RC_SUCCESS"]

\* One marshal step and the break after it: the octets are written and the cursor
\* advances, or the step fails because they do not fit; after a failure no step runs
TSS_Marshal(m, octets) ==
    IF m.unReturnValue # "RC_SUCCESS" THEN m
    ELSE IF Len(octets) > m.nSizeRemaining THEN [m EXCEPT !.unReturnValue = "InsufficientBuffer"]
    ELSE [m EXCEPT !.rgb = @ \o octets, !.nSizeRemaining = @ - Len(octets)]

\* The marshal steps of a request, in the order of the source
RECURSIVE TSS_MarshalEach(_, _)
TSS_MarshalEach(m, fields) ==
    IF fields = <<>> THEN m ELSE TSS_MarshalEach(TSS_Marshal(m, Head(fields)), Tail(fields))

\* A marshal step at another place of the buffer (pbBuffer = rgbRequest + offset)
OverwriteAt(rgb, offset, octets) ==
    [i \in DOMAIN rgb |->
        IF i > offset /\ i <= offset + Len(octets) THEN octets[i - offset] ELSE rgb[i]]

\* The variant that leaves the placeholder of the command size in the request
OverwriteCommandSize_Keep(m) ==
    [rgb |-> m.rgb, unCommandSize |-> MAX_COMMAND_SIZE - m.nSizeRemaining,
     unReturnValue |-> m.unReturnValue]

\* "Overwrite unCommandSize": unCommandSize = sizeof(rgbRequest) - nSizeRemaining is
\* marshalled at rgbRequest + 2 with four octets remaining
OverwriteCommandSize(m) ==
    LET unCommandSize == MAX_COMMAND_SIZE - m.nSizeRemaining IN
    IF m.unReturnValue # "RC_SUCCESS"
    THEN [rgb |-> m.rgb, unCommandSize |-> 0, unReturnValue |-> m.unReturnValue]
    ELSE [rgb |-> OverwriteAt(m.rgb, 2, UINT32_Octets(<<unCommandSize \div 65536, unCommandSize % 65536>>)),
          unCommandSize |-> unCommandSize, unReturnValue |-> "RC_SUCCESS"]

\* "Marshal Session Context" of TPM2_HierarchyChangeAuth: a placeholder of four octets,
\* the authorization data, then the size of the authorization data at the placeholder
MarshalSessionContext(m, authHandleSessionRequestData) ==
    LET prgbPositionOfSize == Len(m.rgb)
        nSizeRemain == 4
        m1 == TSS_Marshal(m, UINT32_Octets(<<0, 0>>))
        m2 == TSS_Marshal(m1, AuthorizationCommandData_Octets(authHandleSessionRequestData))
        unSizeSessionData == Len(m2.rgb) - (prgbPositionOfSize + nSizeRemain)
    IN  IF m2.unReturnValue # "RC_SUCCESS" THEN m2
        ELSE [m2 EXCEPT !.rgb = OverwriteAt(@, prgbPositionOfSize, UINT32_Octets(<<0, unSizeSessionData>>))]

\* The response buffer before the first unmarshal step: pbBuffer = rgbResponse,
\* nSizeRemaining = nSizeResponse, the number of octets the channel reported
ReceivedResponse(transmit) ==
    [rgb |-> transmit.rgb, pbBuffer |-> 0, nSizeRemaining |-> Len(transmit.rgb),
     unReturnValue |-> "RC_SUCCESS"]

\* One unmarshal step of n octets and the break after it: the cursor advances, or the
\* step fails because fewer than n octets remain; after a failure no step runs
TSS_Unmarshal(u, n) ==
    IF u.unReturnValue # "RC_SUCCESS" THEN u
    ELSE IF n > u.nSizeRemaining THEN [u EXCEPT !.unReturnValue = "MalformedResponse"]
    ELSE [u EXCEPT !.pbBuffer = @ + n, !.nSizeRemaining = @ - n]

\* The n octets at the cursor, zero octets if the step that takes them fails
NextOctets(u, n) ==
    IF u.unReturnValue = "RC_SUCCESS" /\ u.pbBuffer + n <= Len(u.rgb)
    THEN SubSeq(u.rgb, u.pbBuffer + 1, u.pbBuffer + n)
    ELSE [i \in 1..n |-> 0]

\* A sized buffer: the size, then that many octets
TPM2B_Unmarshal(u) ==
    LET u1 == TSS_Unmarshal(u, 2)
        size == IF u1.unReturnValue = "RC_SUCCESS" THEN UINT16_Value(NextOctets(u, 2)) ELSE 0
        u2 == TSS_Unmarshal(u1, size)
    IN  [u |-> u2, value |-> IF u2.unReturnValue = "RC_SUCCESS" THEN NextOctets(u1, size) ELSE <<>>]

\* TPMS_CAPABILITY_DATA: the capability, then the list the capability selects (a
\* count, then handles of four octets or tagged properties of eight)
TPMS_CAPABILITY_DATA_Unmarshal(u) ==
    LET u1 == TSS_Unmarshal(u, 4)
        capability == IF u1.unReturnValue = "RC_SUCCESS" THEN UINT32_Value(NextOctets(u, 4)) ELSE <<0, 0>>
        itemSize == IF capability = TPM_CAP_HANDLES THEN 4
                    ELSE IF capability = TPM_CAP_TPM_PROPERTIES THEN 8 ELSE 0
        u2 == IF u1.unReturnValue = "RC_SUCCESS" /\ itemSize = 0
              THEN [u1 EXCEPT !.unReturnValue = "MalformedResponse"]
              ELSE TSS_Unmarshal(u1, 4)
        count == IF u2.unReturnValue = "RC_SUCCESS" THEN UINT32_Value(NextOctets(u1, 4)) ELSE <<0, 0>>
        u3 == IF u2.unReturnValue = "RC_SUCCESS" /\ count[1] # 0
              THEN [u2 EXCEPT !.unReturnValue = "MalformedResponse"]
              ELSE TSS_Unmarshal(u2, count[2] * itemSize)
    IN  [u |-> u3,
         value |-> [capability |-> capability,
                    data |-> IF u3.unReturnValue = "RC_SUCCESS"
                             THEN NextOctets(u2, count[2] * itemSize) ELSE <<>>]]

\* AcknowledgmentResponseData: nonce, session attributes, HMAC
AcknowledgmentResponseData_Unmarshal(u) ==
    LET nonceTPM == TPM2B_Unmarshal(u)
        u1 == TSS_Unmarshal(nonceTPM.u, 1)
        hmac == TPM2B_Unmarshal(u1)
    IN  [u |-> hmac.u,
         value |-> [nonceTPM |-> nonceTPM.value,
                    sessionAttributes |-> IF u1.unReturnValue = "RC_SUCCESS"
                                          THEN NextOctets(nonceTPM.u, 1)[1] ELSE 0,
                    hmac |-> hmac.value]]

\* rgbRequest: the octets written, in a zeroed buffer of MAX_COMMAND_SIZE octets
RequestBuffer(rgb) == rgb \o [i \in 1..(MAX_COMMAND_SIZE - Len(rgb)) |-> 0]

\* The header of a response: tag, response size, response code
ResponseHeader(u) ==
    LET u1 == TSS_Unmarshal(u, 2)
        u2 == TSS_Unmarshal(u1, 4)
        u3 == TSS_Unmarshal(u2, 4)
    IN  [u |-> u3,
         unResponseSize |-> IF u2.unReturnValue = "RC_SUCCESS" THEN UINT32_Value(NextOctets(u1, 4)) ELSE <<0, 0>>,
         responseCode |-> IF u3.unReturnValue = "RC_SUCCESS" THEN UINT32_Value(NextOctets(u2, 4)) ELSE TPM_RC_SUCCESS]

\* What a command function did: its return value (value is the number behind a return
\* value that carries a code of the chip), the requests handed to the channel, the
\* _Out_ parameters, and the number of octets of the response it consumed
TssResult(rv, value, transmitted, out, read) ==
    [rv |-> rv, value |-> value, transmitted |-> transmitted, out |-> out, read |-> read]

\* The request header: tag, the placeholder of the command size, the command code
RequestHeader(tag, commandCode) ==
    <<UINT16_Octets(tag), UINT32_Octets(<<0, 0>>), UINT32_Octets(commandCode)>>

\* TSS_TPM2_Startup: no response parameters
Startup_Outputs(u) == [u |-> u, value |-> <<>>]

\* TSS_TPM2_GetCapability: pMoreData, then pCapabilityData
GetCapability_Zero == [moreData |-> 0, capabilityData |-> [capability |-> <<0, 0>>, data |-> <<>>]]

GetCapability_Outputs(u) ==
    LET u1 == TSS_Unmarshal(u, 1)
        capabilityData == TPMS_CAPABILITY_DATA_Unmarshal(u1)
    IN  [u |-> capabilityData.u,
         value |-> [moreData |-> IF u1.unReturnValue = "RC_SUCCESS" THEN NextOctets(u, 1)[1] ELSE 0,
                    capabilityData |-> capabilityData.value]]

\* TSS_TPM2_GetTestResult: pOutData, then pTestResult
GetTestResult_Zero == [outData |-> <<>>, testResult |-> <<0, 0>>]

GetTestResult_Outputs(u) ==
    LET outData == TPM2B_Unmarshal(u)
        u1 == TSS_Unmarshal(outData.u, 4)
    IN  [u |-> u1,
         value |-> [outData |-> outData.value,
                    testResult |-> IF u1.unReturnValue = "RC_SUCCESS"
                                   THEN UINT32_Value(NextOctets(outData.u, 4)) ELSE <<0, 0>>]]

\* TSS_TPM2_StartAuthSession: pSessionHandle, then pNonceTPM
StartAuthSession_Zero == [sessionHandle |-> <<0, 0>>, nonceTPM |-> <<>>]

StartAuthSession_Outputs(u) ==
    LET u1 == TSS_Unmarshal(u, 4)
        nonceTPM == TPM2B_Unmarshal(u1)
    IN  [u |-> nonceTPM.u,
         value |-> [sessionHandle |-> IF u1.unReturnValue = "RC_SUCCESS"
                                      THEN UINT32_Value(NextOctets(u, 4)) ELSE <<0, 0>>,
                    nonceTPM |-> nonceTPM.value]]

\* TSS_TPM2_HierarchyChangeAuth: the parameter size, then pAuthHandleSessionResponseData
HierarchyChangeAuth_Zero == [nonceTPM |-> <<>>, sessionAttributes |-> 0, hmac |-> <<>>]

HierarchyChangeAuth_Outputs(u) == AcknowledgmentResponseData_Unmarshal(TSS_Unmarshal(u, 4))

\* The _Out_ parameters of a command function after Platform_MemorySet, and the
\* unmarshal steps for its response parameters
TssZero(fn) ==
    CASE fn = "TSS_TPM2_Startup" -> <<>>
      [] fn = "TSS_TPM2_GetCapability" -> GetCapability_Zero
      [] fn = "TSS_TPM2_GetTestResult" -> GetTestResult_Zero
      [] fn = "TSS_TPM2_StartAuthSession" -> StartAuthSession_Zero
      [] fn = "TSS_TPM2_HierarchyChangeAuth" -> HierarchyChangeAuth_Zero

TssOutputs(fn, u) ==
    CASE fn = "TSS_TPM2_Startup" -> Startup_Outputs(u)
      [] fn = "TSS_TPM2_GetCapability" -> GetCapability_Outputs(u)
      [] fn = "TSS_TPM2_GetTestResult" -> GetTestResult_Outputs(u)
      [] fn = "TSS_TPM2_StartAuthSession" -> StartAuthSession_Outputs(u)
      [] fn = "TSS_TPM2_HierarchyChangeAuth" -> HierarchyChangeAuth_Outputs(u)

\* The variant that unmarshals the response parameters before it looks at the response code
TssExchange_ParametersFirst(fn, m, transmit) ==
    LET zero == TssZero(fn) IN
    IF m.unReturnValue # "RC_SUCCESS" THEN TssResult(m.unReturnValue, <<0, 0>>, <<>>, zero, 0)
    ELSE LET transmitted == <<SubSeq(RequestBuffer(m.rgb), 1, m.unCommandSize)>>
             h == ResponseHeader(ReceivedResponse(transmit))
             o == TssOutputs(fn, h.u)
         IN  IF transmit.rc # "RC_SUCCESS" THEN TssResult(transmit.rc, <<0, 0>>, transmitted, zero, 0)
             ELSE IF h.u.unReturnValue # "RC_SUCCESS"
             THEN TssResult(h.u.unReturnValue, <<0, 0>>, transmitted, zero, h.u.pbBuffer)
             ELSE IF h.responseCode # TPM_RC_SUCCESS
             THEN TssResult("RC_TPM_MASK|responseCode", Or32(RC_TPM_MASK, h.responseCode),
                            transmitted, o.value, o.u.pbBuffer)
             ELSE TssResult(o.u.unReturnValue, <<0, 0>>, transmitted, o.value, o.u.pbBuffer)

\* The part every command function has after its marshal steps (m: the request with
\* the command size written):
\* nothing is sent after a failed marshal step; DeviceManagement_Transmit is called
\* once with unCommandSize octets of rgbRequest; after a transport error nothing is
\* unmarshalled; then the header is unmarshalled, a response code other than
\* TPM_RC_SUCCESS is returned as RC_TPM_MASK | responseCode, and only after
\* TPM_RC_SUCCESS the response parameters are unmarshalled into the _Out_ parameters
TssExchange(fn, m, transmit) ==
    LET zero == TssZero(fn) IN
    IF m.unReturnValue # "RC_SUCCESS" THEN TssResult(m.unReturnValue, <<0, 0>>, <<>>, zero, 0)
    ELSE LET transmitted == <<SubSeq(RequestBuffer(m.rgb), 1, m.unCommandSize)>>
             h == ResponseHeader(ReceivedResponse(transmit))
             o == TssOutputs(fn, h.u)
         IN  IF transmit.rc # "RC_SUCCESS" THEN TssResult(transmit.rc, <<0, 0>>, transmitted, zero, 0)
             ELSE IF h.u.unReturnValue # "RC_SUCCESS"
             THEN TssResult(h.u.unReturnValue, <<0, 0>>, transmitted, zero, h.u.pbBuffer)
             ELSE IF h.responseCode # TPM_RC_SUCCESS
             THEN TssResult("RC_TPM_MASK|responseCode", Or32(RC_TPM_MASK, h.responseCode),
                            transmitted, zero, h.u.pbBuffer)
             ELSE TssResult(o.u.unReturnValue, <<0, 0>>, transmitted, o.value, o.u.pbBuffer)

TSS_TPM2_Startup(startupType, transmit) ==
    LET m == TSS_MarshalEach(EmptyRequest,
                 RequestHeader(TPM_ST_NO_SESSIONS, TPM_CC_Startup) \o <<UINT16_Octets(startupType)>>)
    IN  TssExchange("TSS_TPM2_Startup", OverwriteCommandSize(m), transmit)

TSS_TPM2_GetCapability(capability, property, propertyCount, transmit) ==
    LET m == TSS_MarshalEach(EmptyRequest,
                 RequestHeader(TPM_ST_NO_SESSIONS, TPM_CC_GetCapability)
                     \o <<UINT32_Octets(capability), UINT32_Octets(property), UINT32_Octets(propertyCount)>>)
    IN  TssExchange("TSS_TPM2_GetCapability", OverwriteCommandSize(m), transmit)

TSS_TPM2_GetTestResult(transmit) ==
    LET m == TSS_MarshalEach(EmptyRequest, RequestHeader(TPM_ST_NO_SESSIONS, TPM_CC_GetTestResult))
    IN  TssExchange("TSS_TPM2_GetTestResult", OverwriteCommandSize(m), transmit)

TSS_TPM2_StartAuthSession(p, transmit) ==
    LET m == TSS_MarshalEach(EmptyRequest,
                 RequestHeader(TPM_ST_NO_SESSIONS, TPM_CC_StartAuthSession)
                     \o <<UINT32_Octets(p.tpmKey), UINT32_Octets(p.bind), TPM2B_Octets(p.nonceCaller),
                          TPM2B_Octets(p.encryptedSalt), <<p.sessionType>>,
                          TPMT_SYM_DEF_Octets(p.symmetric), UINT16_Octets(p.authHash)>>)
    IN  TssExchange("TSS_TPM2_StartAuthSession", OverwriteCommandSize(m), transmit)

TSS_TPM2_HierarchyChangeAuth(authHandle, authHandleSessionRequestData, newAuth, transmit) ==
    LET m1 == TSS_MarshalEach(EmptyRequest,
                  RequestHeader(TPM_ST_SESSIONS, TPM_CC_HierarchyChangeAuth)
                      \o <<UINT32_Octets(authHandle)>>)
        m2 == MarshalSessionContext(m1, authHandleSessionRequestData)
        m3 == TSS_Marshal(m2, TPM2B_Octets(newAuth))
    IN  TssExchange("TSS_TPM2_HierarchyChangeAuth", OverwriteCommandSize(m3), transmit)

\* The calls of the model: contents of sized buffers, response codes of the chip
\* (16 bit, as the codes of the TPM library are), and what DeviceManagement_Transmit
\* answers: a transport error, or the octets of a response
MaxBlob == 2
Blobs == {[i \in 1..n |-> 17 * i] : n \in 0..MaxBlob}
ChipCodes == {<<0, 257>>, <<0, 2446>>, <<0, 65535>>}
TransportErrors == {"TimedOut", "RC_E_NOT_CONNECTED"}

\* A response: header with the declared size and the response code, then the parameters
Response(tag, declared, responseCode, parameters) ==
    UINT16_Octets(tag) \o UINT32_Octets(<<0, declared>>) \o UINT32_Octets(responseCode) \o parameters

\* The answers to a command whose response parameters are one of bodies: the complete
\* response, each of its prefixes, the response with a declared size above the octets
\* received, an error response with and without octets behind the header, and a
\* transport error
Answers(tag, bodies) ==
    UNION {LET full == Response(tag, 10 + Len(b), TPM_RC_SUCCESS, b) IN
           {[rc |-> "RC_SUCCESS", rgb |-> SubSeq(full, 1, k)] : k \in 0..Len(full)}
               \cup {[rc |-> "RC_SUCCESS", rgb |-> Response(tag, 11 + Len(b), TPM_RC_SUCCESS, b)]}
               \cup {[rc |-> "RC_SUCCESS", rgb |-> Response(tag, 10 + Len(b), c, b)] : c \in ChipCodes}
               \cup {[rc |-> "RC_SUCCESS", rgb |-> Response(tag, 10, c, <<>>)] : c \in ChipCodes}
               \cup {[rc |-> e, rgb |-> r] : e \in TransportErrors, r \in {<<>>, full}}
           : b \in bodies}

\* Response parameters: well formed ones, and ones whose inner size or count is
\* above the octets that follow
StartupBodies == {<<>>}
GetCapabilityBodies ==
    {<<1>> \o UINT32_Octets(TPM_CAP_TPM_PROPERTIES) \o UINT32_Octets(<<0, 1>>)
         \o UINT32_Octets(<<0, 256>>) \o UINT32_Octets(<<0, 7>>),
     <<0>> \o UINT32_Octets(TPM_CAP_HANDLES) \o UINT32_Octets(<<0, 0>>),
     <<0>> \o UINT32_Octets(TPM_CAP_HANDLES) \o UINT32_Octets(<<0, 2>>) \o UINT32_Octets(<<768, 1>>)}
GetTestResultBodies ==
    {TPM2B_Octets(b) \o UINT32_Octets(<<0, 0>>) : b \in Blobs}
        \cup {UINT16_Octets(9) \o <<17>> \o UINT32_Octets(<<0, 1>>)}
StartAuthSessionBodies ==
    {UINT32_Octets(<<768, 1>>) \o TPM2B_Octets(b) : b \in Blobs}
        \cup {UINT32_Octets(<<768, 1>>) \o UINT16_Octets(3) \o <<17>>}
HierarchyChangeAuthBodies ==
    {UINT32_Octets(<<0, 0>>) \o TPM2B_Octets(b) \o <<1>> \o TPM2B_Octets(<<>>) : b \in Blobs}
        \cup {UINT32_Octets(<<0, 0>>) \o TPM2B_Octets(<<>>) \o <<1>> \o UINT16_Octets(4) \o <<17>>}

StartAuthSessionParameters ==
    [tpmKey : {<<16384, 7>>}, bind : {<<16384, 7>>}, nonceCaller : Blobs, encryptedSalt : Blobs,
     sessionType : {1},
     symmetric : {[algorithm |-> TPM_ALG_NULL, keyBits |-> 0, mode |-> 0],
                  [algorithm |-> 6, keyBits |-> 128, mode |-> 67]},
     authHash : {11}]

AuthorizationCommandDatas ==
    [authHandle : {<<16384, 9>>}, nonceCaller : Blobs, sessionAttributes : {0}, hmac : Blobs]

TssInit ==
    /\ upd = InitialUpdate(Probe(NoAttribs, 0))
    /\ props = <<>>
    /\ s_fUpdateThroughConfigFile = FALSE
    /\ rundata = NoFile
    /\ chip = [bootLoader |-> FALSE, sessions |-> {}]
    /\ started = NotStarted
    /\ phases = {}
    /\ clear = [unReturnCode |-> "RC_E_FAIL"]
    /\ ret = Ret("none", "RC_SUCCESS")
    /\ pc = "exit"
    /\ tpmio = IoInitial

\* The history of a call of a command function: env holds the wire form of each
\* parameter of the call, in the order of the request, the answer of the channel, and
\* what the call did.
\* The command functions keep nothing between calls (every buffer is a local of the
\* call), so each call is made from the state before the first call.
TssReturn(fn, tag, commandCode, parameters, zero, transmit, r) ==
    [Ret(fn, r.rv) EXCEPT !.env = [tag |-> tag, commandCode |-> commandCode,
                                   parameters |-> parameters, zero |-> zero,
                                   transmit |-> transmit, did |-> r]]

TssUnchanged ==
    UNCHANGED <<upd, props, s_fUpdateThroughConfigFile, rundata, chip, started, phases, clear, pc, tpmio>>

CallStartup ==
    \E startupType \in {0, 1}, transmit \in Answers(TPM_ST_NO_SESSIONS, StartupBodies) :
        /\ ret.fn = "none"
        /\ ret' = TssReturn("TSS_TPM2_Startup", TPM_ST_NO_SESSIONS, TPM_CC_Startup,
                            <<UINT16_Octets(startupType)>>, <<>>, transmit,
                            TSS_TPM2_Startup(startupType, transmit))
        /\ TssUnchanged

CallGetCapability ==
    \E capability \in {TPM_CAP_HANDLES, TPM_CAP_TPM_PROPERTIES}, propertyCount \in {<<0, 1>>, <<0, 2>>},
       transmit \in Answers(TPM_ST_NO_SESSIONS, GetCapabilityBodies) :
        /\ ret.fn = "none"
        /\ ret' = TssReturn("TSS_TPM2_GetCapability", TPM_ST_NO_SESSIONS, TPM_CC_GetCapability,
                            <<UINT32_Octets(capability), UINT32_Octets(<<0, 256>>), UINT32_Octets(propertyCount)>>,
                            GetCapability_Zero, transmit,
                            TSS_TPM2_GetCapability(capability, <<0, 256>>, propertyCount, transmit))
        /\ TssUnchanged

CallGetTestResult ==
    \E transmit \in Answers(TPM_ST_NO_SESSIONS, GetTestResultBodies) :
        /\ ret.fn = "none"
        /\ ret' = TssReturn("TSS_TPM2_GetTestResult", TPM_ST_NO_SESSIONS, TPM_CC_GetTestResult,
                            <<>>, GetTestResult_Zero, transmit, TSS_TPM2_GetTestResult(transmit))
        /\ TssUnchanged

CallStartAuthSession ==
    \E p \in StartAuthSessionParameters, transmit \in Answers(TPM_ST_NO_SESSIONS, StartAuthSessionBodies) :
        /\ ret.fn = "none"
        /\ ret' = TssReturn("TSS_TPM2_StartAuthSession", TPM_ST_NO_SESSIONS, TPM_CC_StartAuthSession,
                            <<UINT32_Octets(p.tpmKey), UINT32_Octets(p.bind), TPM2B_Octets(p.nonceCaller),
                              TPM2B_Octets(p.encryptedSalt), <<p.sessionType>>,
                              TPMT_SYM_DEF_Octets(p.symmetric), UINT16_Octets(p.authHash)>>,
                            StartAuthSession_Zero, transmit, TSS_TPM2_StartAuthSession(p, transmit))
        /\ TssUnchanged

CallHierarchyChangeAuth ==
    \E a \in AuthorizationCommandDatas, newAuth \in Blobs,
       transmit \in Answers(TPM_ST_SESSIONS, HierarchyChangeAuthBodies) :
        /\ ret.fn = "none"
        /\ ret' = TssReturn("TSS_TPM2_HierarchyChangeAuth", TPM_ST_SESSIONS, TPM_CC_HierarchyChangeAuth,
                            <<UINT32_Octets(<<16384, 12>>), AuthorizationCommandData_Octets(a),
                              TPM2B_Octets(newAuth)>>,
                            HierarchyChangeAuth_Zero, transmit,
                            TSS_TPM2_HierarchyChangeAuth(<<16384, 12>>, a, newAuth, transmit))
        /\ TssUnchanged

TssNext ==
    \/ CallStartup
    \/ CallGetCapability
    \/ CallGetTestResult
    \/ CallStartAuthSession
    \/ CallHierarchyChangeAuth

TssSpec == TssInit /\ [][TssNext]_vars

----------------------------------------------------------------------------
(* The phase functions called with a NULL record.  An access through the NULL   *)
(* pointer is undefined: the process takes a fault, or the access goes through  *)
(* and a read delivers any value.                                               *)

\* What a call with a NULL record did: its return value ("SIGSEGV": the process died
\* in the call), the TPM commands it sent, and the fields of the record it read or
\* wrote through the pointer
NullCall(rv, cmds, accesses) == [rv |-> rv, cmds |-> cmds, accesses |-> accesses]

\* The outcomes of a read and of a write through the NULL pointer
NullReads == {"fault", "zero", "nonzero"}
NullWrites == {"fault", "done"}

\* "Check parameters": NULL == PpTpmUpdate is the first operand of the test, so no
\* field is looked at; RC_E_BAD_PARAMETER, break, and the function returns
IsFirmwareUpdatable_Null == NullCall("RC_E_BAD_PARAMETER", <<>>, <<>>)
PrepareFirmwareUpdate_Null == NullCall("RC_E_BAD_PARAMETER", <<>>, <<>>)
ProceedUpdateConfig_Null == NullCall("RC_E_BAD_PARAMETER", <<>>, <<>>)

\* UpdateFirmware breaks with RC_E_BAD_PARAMETER as well, but behind the block it
\* closes the policy session "in case of errors": with unReturnValue not RC_SUCCESS
\* the test goes on to 0 != PpTpmUpdate->hPolicySession, and for a value other than
\* zero TSS_TPM2_FlushContext is called and the handle is set to zero
UpdateFirmware_Null(read, write) ==
    IF read = "fault" THEN NullCall("SIGSEGV", <<>>, <<"read hPolicySession">>)
    ELSE IF read = "zero" THEN NullCall("RC_E_BAD_PARAMETER", <<>>, <<"read hPolicySession">>)
    ELSE IF write = "fault"
    THEN NullCall("SIGSEGV", <<"TPM2_FlushContext">>,
                  <<"read hPolicySession", "read hPolicySession", "write hPolicySession">>)
    ELSE NullCall("RC_E_BAD_PARAMETER", <<"TPM2_FlushContext">>,
                  <<"read hPolicySession", "read hPolicySession", "write hPolicySession">>)

\* Tpm12ClearOwnership_Execute breaks with RC_E_BAD_PARAMETER, and behind the block
\* stores it: PpTpmClearOwnership->unReturnCode = unReturnValue; unReturnValue = RC_SUCCESS
Tpm12ClearOwnership_Execute_Null(write) ==
    IF write = "fault" THEN NullCall("SIGSEGV", <<>>, <<"write unReturnCode">>)
    ELSE NullCall("RC_SUCCESS", <<>>, <<"write unReturnCode">>)

\* The history of a call with a NULL record; nothing of the process changes
NullReturn(fn, r) ==
    /\ ret.fn # "none"
    /\ ret.rv # "SIGSEGV"
    /\ ret' = [Ret(fn, r.rv) EXCEPT !.cmds = r.cmds, !.env = [record |-> "NULL", accesses |-> r.accesses]]
    /\ UNCHANGED <<upd, props, s_fUpdateThroughConfigFile, rundata, chip, started, phases, clear, pc, tpmio>>

NullStart == (\E req \in UpdateRequests, probe \in Probes : StartRun(req, probe)) /\ UNCHANGED pc
NullIsFirmwareUpdatable == NullReturn("IsFirmwareUpdatable", IsFirmwareUpdatable_Null)
NullPrepareFirmwareUpdate == NullReturn("PrepareFirmwareUpdate", PrepareFirmwareUpdate_Null)
NullProceedUpdateConfig == NullReturn("ProceedUpdateConfig", ProceedUpdateConfig_Null)
NullUpdateFirmware ==
    \E read \in NullReads, write \in NullWrites :
        NullReturn("UpdateFirmware", UpdateFirmware_Null(read, write))
NullTpm12ClearOwnership ==
    \E write \in NullWrites :
        NullReturn("Tpm12ClearOwnership_Execute", Tpm12ClearOwnership_Execute_Null(write))

NullNext ==
    \/ NullStart
    \/ NullIsFirmwareUpdatable
    \/ NullPrepareFirmwareUpdate
    \/ NullProceedUpdateConfig
    \/ NullUpdateFirmware
    \/ NullTpm12ClearOwnership

\* A process whose caller passes NULL for the record, any number of times
NullSpec == CallerInit /\ [][NullNext]_vars

----------------------------------------------------------------------------
(* The config-file flow up to the preparation on a chip that is not in
   boot-loader mode, for config files that name either update type of a TPM1.2 *)

\* The config files: the complete one with each value of key tpm12, in either
\* case, and with a value that is no update type
TypeConfigFiles ==
    {[CompleteConfig EXCEPT ![1] = Triple("UpdateType", "tpm12", <<v>>)] :
        v \in {"tpm12-PP", "TPM12-PP", "tpm12-takeownership", "TPM12-TAKEOWNERSHIP", "TPM20"}}

TypeProbes ==
    {[attribs |-> a, version |-> v, remaining |-> r] :
        a \in {x \in TpmStates : ~x.bootLoader}, v \in VersionNames, r \in 0..MaxRemainingUpdates}

TypeInit ==
    /\ \E c \in ConfigPaths, probe \in TypeProbes :
        /\ upd = InitialUpdate(probe)
        /\ props = CliProperties([updateType |-> "UPDATE_TYPE_CONFIG_FILE", firmware |-> <<>>,
                                  config |-> c, dryRun |-> FALSE])
    /\ chip = [bootLoader |-> FALSE, sessions |-> {}]
    /\ rundata = NoFile
    /\ started = NotStarted
    /\ s_fUpdateThroughConfigFile = FALSE
    /\ phases = {}
    /\ clear = [unReturnCode |-> "RC_E_FAIL"]
    /\ ret = Ret("StartRun", "RC_SUCCESS")
    /\ pc = "config"
    /\ tpmio = IoInitial

TypeProceedUpdateConfig ==
    /\ pc = "config"
    /\ \E cfg \in TypeConfigFiles, disk \in Disks : ProceedUpdateConfigWith(cfg, disk, TRUE, TRUE)
    /\ pc' = IF Succeeded(ret'.rv, upd') THEN "check" ELSE "done"

TypeNext ==
    \/ TypeProceedUpdateConfig
    \/ ToolIsFirmwareUpdatable
    \/ ToolPrepareFirmwareUpdate

TypeSpec == TypeInit /\ [][TypeNext]_vars

----------------------------------------------------------------------------
(* Properties *)

\* The commands the prepare phase sends to authorize the update
AuthorizationCommands ==
    {"TSC_PhysicalPresence(CMD_ENABLE)", "TSC_PhysicalPresence(PRESENT)",
     "TPM_SetCapability(STCLEAR_DATA,DEFERREDPHYSICALPRESENCE)", "TPM_ReadPubEK", "TPM_OIAP",
     "TPM_TakeOwnership", "TPM2_StartAuthSession", "TPM2_PolicyCommandCode", "TPM2_PolicySecret"}

Sent(cmds) == {cmds[i] : i \in DOMAIN cmds}

\* C1: PrepareFirmwareUpdate proceeds only on a record of sub type IS_UPDATABLE and
\* UpdateFirmware only on one of sub type PREPARE; on any other record they return
\* RC_E_BAD_PARAMETER, send no authorization command and start no transfer.  So a
\* transfer happens only on a record on which the prepare phase ran, and the prepare
\* phase only on one on which the updatable check ran.
C1_PhaseOrder ==
    [][/\ (ret'.fn = "PrepareFirmwareUpdate" /\ upd.unSubType # "STRUCT_SUBTYPE_IS_UPDATABLE")
            => /\ ret'.rv = "RC_E_BAD_PARAMETER"
               /\ ret'.cmds = <<>>
               /\ upd' = upd /\ chip' = chip
       /\ (ret'.fn = "UpdateFirmware" /\ upd.unSubType # "STRUCT_SUBTYPE_PREPARE")
            => /\ ret'.rv = "RC_E_BAD_PARAMETER"
               /\ Sent(ret'.cmds) \cap AuthorizationCommands = {}
               /\ ~ret'.transfer /\ ret'.events = <<>>
       /\ (ret'.fn = "PrepareFirmwareUpdate" /\ ret'.rv # "RC_E_BAD_PARAMETER")
            => upd.unSubType = "STRUCT_SUBTYPE_IS_UPDATABLE"
       /\ (ret'.fn = "UpdateFirmware" /\ ret'.rv # "RC_E_BAD_PARAMETER")
            => upd.unSubType = "STRUCT_SUBTYPE_PREPARE"
       /\ ret'.transfer => "prepare" \in phases
       /\ "prepare" \in phases' => "updatable check" \in phases'
      ]_vars

\* UpdateFirmware was called on a record the prepare phase had not run on last
C1_Witness ==
    /\ ret.fn = "UpdateFirmware"
    /\ ret.rv = "RC_E_BAD_PARAMETER"
    /\ upd.unSubType = "STRUCT_SUBTYPE_IS_UPDATABLE"

C3_CallbackWritesPath ==
    (ret.fn = "UpdateFirmware" /\ ret.callback /\ "PROPERTY_FIRMWARE_PATH" \in DOMAIN props)
        => ret.markerAfterTransfer = [exists |-> TRUE, content |-> props["PROPERTY_FIRMWARE_PATH"]]

\* C3: when the callback fires in a config-file update that selected its image, the
\* run data file is created and, unless the write fails, holds the selected firmware
\* path (it is left alone if it cannot be opened); in every other update (the update
\* types given with -firmware, a resume in boot loader mode) the callback leaves the
\* file as it is.
C3_CallbackWritesPathOfConfigUpdate ==
    [][(ret'.fn = "UpdateFirmware" /\ ret'.callback)
        => IF s_fUpdateThroughConfigFile
           THEN /\ "PROPERTY_FIRMWARE_PATH" \in DOMAIN props
                /\ ret'.io = "written"
                    => ret'.markerAfterTransfer =
                            [exists |-> TRUE, content |-> props["PROPERTY_FIRMWARE_PATH"]]
                /\ ret'.io = "write fails"
                    => ret'.markerAfterTransfer = [exists |-> TRUE, content |-> <<>>]
                /\ ret'.io = "open fails" => ret'.markerAfterTransfer = rundata
           ELSE ret'.markerAfterTransfer = rundata
      ]_vars

\* The callback of a config-file update has written the path of the image
C3_Witness ==
    /\ ret.fn = "UpdateFirmware" /\ ret.callback /\ s_fUpdateThroughConfigFile
    /\ ret.markerAfterTransfer = [exists |-> TRUE, content |-> props["PROPERTY_FIRMWARE_PATH"]]

\* C4: when FirmwareUpdate_UpdateImage returns a code other than RC_SUCCESS,
\* UpdateFirmware returns RC_SUCCESS with that code as the inner return code and
\* leaves the run data file as the transfer left it; the file is removed only when
\* the inner return code is RC_SUCCESS, and a failed removal changes no code.
C4_MarkerKeptOnFailure ==
    (ret.fn = "UpdateFirmware" /\ ret.transfer)
        => /\ ret.rv = "RC_SUCCESS"
           /\ upd.unReturnCode = ret.transferRc
           /\ ret.transferRc # "RC_SUCCESS" => rundata = ret.markerAfterTransfer
           /\ rundata # ret.markerAfterTransfer
                => rundata = NoFile /\ upd.unReturnCode = "RC_SUCCESS"
           /\ ret.removeFailed => rundata = ret.markerAfterTransfer /\ upd.unReturnCode = "RC_SUCCESS"

\* A transfer timed out and the run data file is there for a later run
C4_Witness ==
    /\ ret.fn = "UpdateFirmware" /\ ret.transfer /\ ret.transferRc = "TimedOut"
    /\ rundata.exists /\ rundata.content # <<>>

\* C5: when UpdateFirmware returns a non-success envelope value or inner return code
\* and the record held a policy session handle, exactly one TPM2_FlushContext was
\* sent, for that handle, and the record's handle is 0; the session is gone unless
\* the flush failed, and a failing flush changes neither code.
C5_SessionFlushedOnError ==
    [][(ret'.fn = "UpdateFirmware" /\ upd.hPolicySession # 0
            /\ (ret'.rv # "RC_SUCCESS" \/ upd'.unReturnCode # "RC_SUCCESS"))
        => /\ ret'.flushes = <<upd.hPolicySession>>
           /\ upd'.hPolicySession = 0
           /\ ~ret'.flushFailed => upd.hPolicySession \notin chip'.sessions
           /\ \A o \in TransferOutcomes, io \in FileOutcomes, removeOk \in BOOLEAN :
                LET ok == UpdateFirmware(upd, props, s_fUpdateThroughConfigFile, rundata, chip,
                                         o, io, removeOk, TRUE)
                    failing == UpdateFirmware(upd, props, s_fUpdateThroughConfigFile, rundata, chip,
                                              o, io, removeOk, FALSE) IN
                failing.rv = ok.rv /\ failing.upd = ok.upd
      ]_vars

\* A transfer on a TPM2.0 chip failed and the policy session was flushed
C5_Witness ==
    /\ ret.fn = "UpdateFirmware" /\ ret.transfer /\ upd.unReturnCode # "RC_SUCCESS"
    /\ Len(ret.flushes) = 1 /\ upd.hPolicySession = 0

\* C6: when UpdateFirmware returns envelope and inner RC_SUCCESS on a TPM2.0 chip
\* (real transfer or dry run), the policy session of the record is not live on the
\* chip any more, and the run data file is gone (unless its removal failed)
C6_NoSessionAfterSuccess ==
    (ret.fn = "UpdateFirmware" /\ Succeeded(ret.rv, upd) /\ upd.sTpmState.tpm20)
        => /\ upd.hPolicySession \notin chip.sessions
           /\ ~ret.removeFailed => ~rundata.exists

\* C7: in the TPM1.2 routines that open an OIAP session (PrepareTPM12Ownership,
\* Tpm12ClearOwnership_Execute), a failure after TSS_TPM_OIAP returned a handle
\* leaves that session not live; at most one session is live at any time
C7_OiapSessionEndedOnError ==
    /\ (/\ ret.fn \in {"PrepareFirmwareUpdate", "Tpm12ClearOwnership_Execute"}
        /\ "TPM_OIAP" \in Sent(ret.cmds)
        /\ ret.opened # {}
        /\ IF ret.fn = "PrepareFirmwareUpdate" THEN upd.unReturnCode # "RC_SUCCESS"
           ELSE clear.unReturnCode # "RC_SUCCESS")
        => ret.opened \cap chip.sessions = {}
    /\ Cardinality(chip.sessions) <= 1

\* The sleeps and progress callbacks of a dry run
DryRunTrace ==
    [i \in 1..8 |-> IF i % 2 = 1 THEN [call |-> "Platform_SleepMicroSeconds", arg |-> 2000000]
                    ELSE [call |-> "Response_ProgressCallback", arg |-> 25 * (i \div 2)]]

\* C8: with the dry-run property TRUE, the update phase of a run calls no transfer,
\* sends no TPM command, calls the progress callback four times, with 25, 50, 75, 100,
\* each after a sleep of 2 s, and sets the inner return code RC_SUCCESS
C8_DryRun ==
    (ret.fn = "UpdateFirmware" /\ "PROPERTY_DRY_RUN" \in DOMAIN props /\ props["PROPERTY_DRY_RUN"] = TRUE)
        => /\ ~ret.transfer /\ ~ret.callback
           /\ ret.cmds = <<>>
           /\ ret.events = DryRunTrace
           /\ ret.rv = "RC_SUCCESS" /\ upd.unReturnCode = "RC_SUCCESS"

\* The update phase of a dry run on a prepared TPM2.0 chip has returned
C8_Witness ==
    /\ ret.fn = "UpdateFirmware"
    /\ "PROPERTY_DRY_RUN" \in DOMAIN props /\ props["PROPERTY_DRY_RUN"] = TRUE
    /\ upd.sTpmState.tpm20 /\ upd.hPolicySession # 0
    /\ Len(ret.events) = 8

CheckFunctions == {"ProceedUpdateConfig", "IsFirmwareUpdatable"}

\* C9 as stated: over the calls of ProceedUpdateConfig and IsFirmwareUpdatable on one
\* record, unNewFirmwareValid once YES is never set back to NA
C9_YesNeverBackToNA ==
    [][(ret'.fn \in CheckFunctions /\ upd.unNewFirmwareValid = "GENERIC_TRISTATE_STATE_YES")
        => upd'.unNewFirmwareValid # "GENERIC_TRISTATE_STATE_NA"]_vars

\* C9: every call of ProceedUpdateConfig or IsFirmwareUpdatable first sets
\* unNewFirmwareValid to NA, whatever it was.  After the call it is YES exactly when
\* this call checked the image against the chip and the check passed, NO exactly when
\* the image check failed or ProceedUpdateConfig found the chip already up to date,
\* and NA otherwise; no other phase function changes it.
C9_ValidIsOfLastCheck ==
    [][/\ ret'.fn \in CheckFunctions
            => /\ upd'.unNewFirmwareValid = "GENERIC_TRISTATE_STATE_YES"
                    <=> (ret'.imageChecked /\ Succeeded(ret'.rv, upd'))
               /\ upd'.unNewFirmwareValid = "GENERIC_TRISTATE_STATE_NO"
                    <=> \/ ret'.imageChecked /\ ~Succeeded(ret'.rv, upd')
                        \/ ret'.fn = "ProceedUpdateConfig"
                            /\ upd'.unReturnCode = "RC_E_ALREADY_UP_TO_DATE"
       /\ ret'.fn \in {"PrepareFirmwareUpdate", "UpdateFirmware"}
            => upd'.unNewFirmwareValid = upd.unNewFirmwareValid
      ]_vars

\* A call has set unNewFirmwareValid back to NA on a record whose image an earlier
\* call had loaded and checked
C9_Witness ==
    /\ ret.fn \in CheckFunctions
    /\ upd.unNewFirmwareValid = "GENERIC_TRISTATE_STATE_NA"
    /\ upd.rgbFirmwareImage # <<>>
    /\ ~ret.imageChecked

PhaseFunctions == CheckFunctions \cup {"PrepareFirmwareUpdate", "UpdateFirmware"}

\* C10 as stated: whenever a phase function returns a non-success envelope value, the
\* inner return code left in the record is not RC_SUCCESS
C10_InnerSuccessImpliesEnvelopeSuccess ==
    (ret.fn \in PhaseFunctions /\ ret.rv # "RC_SUCCESS") => upd.unReturnCode # "RC_SUCCESS"

\* C10: whenever a phase function returns an envelope value other than RC_SUCCESS and
\* RC_E_BAD_PARAMETER, the inner return code left in the record is not RC_SUCCESS;
\* the bad-parameter exit leaves sub type and inner return code as they were, so
\* an RC_SUCCESS left by an earlier phase stays
C10_InnerCodeOnErrorExits ==
    [][ret'.fn \in PhaseFunctions
        => /\ ret'.rv \notin {"RC_SUCCESS", "RC_E_BAD_PARAMETER"}
                => upd'.unReturnCode # "RC_SUCCESS"
           /\ ret'.rv = "RC_E_BAD_PARAMETER"
                => /\ upd'.unReturnCode = upd.unReturnCode
                   /\ upd'.unSubType = upd.unSubType
      ]_vars

\* A phase function took the bad-parameter exit on a record whose inner return code
\* an earlier phase had set to RC_SUCCESS
C10_Witness ==
    /\ ret.fn \in PhaseFunctions
    /\ ret.rv = "RC_E_BAD_PARAMETER"
    /\ upd.unReturnCode = "RC_SUCCESS"

\* A step of the tool that calls ProceedUpdateConfig on a chip in boot-loader mode
\* with a config file that parses
ResumeCall ==
    /\ ret'.fn = "ProceedUpdateConfig"
    /\ upd.sTpmState.bootLoader
    /\ PropertyStorage_Exists(props, "PROPERTY_CONFIG_FILE_PATH")
    /\ ret'.env.cfg # <<>>
    /\ Config_ParseCustom(props, ret'.env.cfg).rc = "RC_SUCCESS"

\* In a resume the config file is parsed and the version and path logic is skipped
ResumeSkipsSelection ==
    /\ props' = Config_ParseCustom(props, ret'.env.cfg).props
       \/ props' = PropertyStorage_Add(Config_ParseCustom(props, ret'.env.cfg).props,
                                       "PROPERTY_FIRMWARE_PATH", props'["PROPERTY_FIRMWARE_PATH"])
    /\ PropertyStorage_Exists(props', "PROPERTY_CONFIG_TARGET_FIRMWARE_VERSION_LPC")
    /\ upd'.wszUsedFirmwareImage = upd.wszUsedFirmwareImage
    /\ upd'.unNewFirmwareValid = "GENERIC_TRISTATE_STATE_NA"
    /\ s_fUpdateThroughConfigFile' = s_fUpdateThroughConfigFile

\* The resume found no run data file
ResumeNotFound ==
    /\ ret'.rv = "RC_E_RESUME_RUNDATA_NOT_FOUND"
    /\ ~PropertyStorage_Exists(props', "PROPERTY_FIRMWARE_PATH")

\* The resume took the path from the run data file
ResumeTakesPath ==
    /\ PropertyStorage_Exists(props', "PROPERTY_FIRMWARE_PATH")
    /\ props'["PROPERTY_FIRMWARE_PATH"] = StringGetLine(rundata.content).line
    /\ props'["PROPERTY_FIRMWARE_PATH"] = rundata.content
    /\ props'["PROPERTY_UPDATE_TYPE"] = props["PROPERTY_UPDATE_TYPE"]
    /\ upd'.unReturnCode = "RC_SUCCESS"
    /\ ret'.rv = "RC_SUCCESS"

\* C11 as stated: in a resume (boot-loader mode, config file parsed) the version
\* and path logic is skipped; without the run data file ProceedUpdateConfig returns
\* RC_E_RESUME_RUNDATA_NOT_FOUND and sets no firmware path; with the file it sets
\* the firmware path to the file's first line, which is the path the callback
\* wrote, keeps the update type and reports inner RC_SUCCESS
C11_ResumeFromMarker ==
    [][ResumeCall =>
        /\ ResumeSkipsSelection
        /\ ~rundata.exists => ResumeNotFound
        /\ rundata.exists => ResumeTakesPath]_vars

\* C11, amended: the same, but the path is taken only from a run data file that
\* can be read and has content; a file that cannot be read gives RC_E_FAIL, an
\* empty one gives envelope RC_SUCCESS with inner code RC_E_FAIL, both without a
\* firmware path
C11_ResumeFromReadableMarker ==
    [][ResumeCall =>
        /\ ResumeSkipsSelection
        /\ ~rundata.exists => ResumeNotFound
        /\ (rundata.exists /\ ret'.env.readOk /\ rundata.content # <<>>) => ResumeTakesPath
        /\ (rundata.exists /\ ~ret'.env.readOk) =>
                /\ ret'.rv = "RC_E_FAIL"
                /\ ~PropertyStorage_Exists(props', "PROPERTY_FIRMWARE_PATH")
        /\ (rundata.exists /\ ret'.env.readOk /\ rundata.content = <<>>) =>
                /\ ret'.rv = "RC_SUCCESS"
                /\ upd'.unReturnCode = "RC_E_FAIL"
                /\ ~PropertyStorage_Exists(props', "PROPERTY_FIRMWARE_PATH")]_vars

\* A resume took the firmware path from the run data file an interrupted
\* config-file update left
C11_Witness ==
    /\ ret.fn = "ProceedUpdateConfig"
    /\ upd.sTpmState.bootLoader
    /\ rundata.exists /\ rundata.content # <<>>
    /\ PropertyStorage_Exists(props, "PROPERTY_FIRMWARE_PATH")
    /\ props["PROPERTY_FIRMWARE_PATH"] = rundata.content
    /\ upd.unReturnCode = "RC_SUCCESS"
    /\ started.config

\* The update type does not fit the family of the chip
WrongUpdateTypeForFamily(attribs, unUpdateType) ==
    \/ attribs.tpm12 /\ unUpdateType \notin {"UPDATE_TYPE_TPM12_DEFERREDPP", "UPDATE_TYPE_TPM12_TAKEOWNERSHIP"}
    \/ attribs.tpm20 /\ unUpdateType # "UPDATE_TYPE_TPM20_EMPTYPLATFORMAUTH"

\* The error of the checks that come before the remaining-updates check, in
\* order, and RC_E_FW_UPDATE_BLOCKED when none of them fails
BlockedOrEarlierError(attribs, unUpdateType) ==
    IF WrongUpdateTypeForFamily(attribs, unUpdateType) THEN "RC_E_INVALID_UPDATE_OPTION"
    ELSE IF attribs.tpm12 /\ attribs.tpm12owner THEN "RC_E_TPM12_OWNED"
    ELSE IF attribs.tpm20restartRequired THEN "RC_E_RESTART_REQUIRED"
    ELSE IF attribs.tpm20InFailureMode THEN "RC_E_TPM20_FAILURE_MODE"
    ELSE "RC_E_FW_UPDATE_BLOCKED"

\* C12: with no updates remaining IsFirmwareUpdatable, for every chip state and
\* update type, never reports RC_SUCCESS or YES and never loads or checks the
\* image; the inner code is RC_E_FW_UPDATE_BLOCKED unless an earlier check (wrong
\* update type, owner, restart required, failure mode, in that order) gave its error
C12_NoUpdatesRemaining ==
    (/\ ret.fn = "IsFirmwareUpdatable"
     /\ upd.unRemainingUpdates = 0
     /\ PropertyStorage_Exists(props, "PROPERTY_UPDATE_TYPE"))
    => /\ upd.unReturnCode # "RC_SUCCESS"
       /\ upd.unNewFirmwareValid # "GENERIC_TRISTATE_STATE_YES"
       /\ ~ret.imageChecked
       /\ upd.rgbFirmwareImage = <<>>
       /\ upd.unReturnCode = BlockedOrEarlierError(upd.sTpmState, props["PROPERTY_UPDATE_TYPE"])
       /\ ret.rv = "RC_SUCCESS"

\* A TPM2.0 with its update counter used up was refused with RC_E_FW_UPDATE_BLOCKED
C12_Witness ==
    /\ ret.fn = "IsFirmwareUpdatable"
    /\ upd.unRemainingUpdates = 0
    /\ upd.sTpmState.tpm20
    /\ PropertyStorage_Exists(props, "PROPERTY_FIRMWARE_PATH")
    /\ upd.unReturnCode = "RC_E_FW_UPDATE_BLOCKED"

\* C13: on a TPM1.2 with an owner and a TPM1.2 update type the updatable check
\* ends with inner code RC_E_TPM12_OWNED and envelope RC_SUCCESS, reads no
\* firmware file, sends no command and leaves unNewFirmwareValid NA; the run ends there
C13_Tpm12Owned ==
    (/\ ret.fn = "IsFirmwareUpdatable"
     /\ upd.sTpmState.tpm12 /\ upd.sTpmState.tpm12owner
     /\ PropertyStorage_Exists(props, "PROPERTY_UPDATE_TYPE")
     /\ props["PROPERTY_UPDATE_TYPE"] \in {"UPDATE_TYPE_TPM12_DEFERREDPP", "UPDATE_TYPE_TPM12_TAKEOWNERSHIP"})
    => /\ upd.unReturnCode = "RC_E_TPM12_OWNED"
       /\ ret.rv = "RC_SUCCESS"
       /\ ~ret.imageChecked
       /\ upd.rgbFirmwareImage = <<>>
       /\ ret.cmds = <<>>
       /\ chip.sessions = {}
       /\ upd.unNewFirmwareValid = "GENERIC_TRISTATE_STATE_NA"
       /\ pc = "done"

\* An owned TPM1.2 was refused although updates remain and a firmware path was given
C13_Witness ==
    /\ ret.fn = "IsFirmwareUpdatable"
    /\ upd.sTpmState.tpm12 /\ upd.sTpmState.tpm12owner
    /\ upd.unRemainingUpdates > 0
    /\ UpdateTypeIs(props, "UPDATE_TYPE_TPM12_TAKEOWNERSHIP")
    /\ PropertyStorage_Exists(props, "PROPERTY_FIRMWARE_PATH")
    /\ upd.unReturnCode = "RC_E_TPM12_OWNED"

\* The image errors IsTpmUpdatableWithFirmware passes on as they are
ImageErrors ==
    {"RC_E_CORRUPT_FW_IMAGE", "RC_E_WRONG_FW_IMAGE", "RC_E_NEWER_TOOL_REQUIRED", "RC_E_WRONG_DECRYPT_KEYS"}

\* The updatable check loaded the image and FirmwareUpdate_CheckImage found it
\* not valid for the chip
ImageFoundNotValid ==
    /\ ret.fn = "IsFirmwareUpdatable"
    /\ ret.imageChecked
    /\ ret.env.rc = "RC_SUCCESS"
    /\ ~ret.env.fValid

\* C14: for an image that is not valid for the chip IsFirmwareUpdatable reports
\* unNewFirmwareValid NO and an inner code that is not RC_SUCCESS: the image error
\* itself if it is one of the four image errors, RC_E_TPM_FIRMWARE_UPDATE for any
\* other detail; target family and new version stay unset; the run sends no
\* prepare command afterwards
C14_ImageNotValid ==
    /\ ImageFoundNotValid =>
        /\ upd.unNewFirmwareValid = "GENERIC_TRISTATE_STATE_NO"
        /\ upd.unReturnCode # "RC_SUCCESS"
        /\ upd.unReturnCode = IF ret.env.details \in ImageErrors THEN ret.env.details
                              ELSE "RC_E_TPM_FIRMWARE_UPDATE"
        /\ upd.bTargetFamily = "none"
        /\ upd.wszNewFirmwareVersion = <<>>
        /\ ret.rv = "RC_SUCCESS"
        /\ pc = "done"
    /\ upd.unNewFirmwareValid = "GENERIC_TRISTATE_STATE_NO" =>
        /\ "prepare" \notin phases
        /\ ret.fn \notin {"PrepareFirmwareUpdate", "UpdateFirmware"}
        /\ chip.sessions = {}

\* An image of the wrong kind was refused with RC_E_WRONG_FW_IMAGE
C14_Witness ==
    /\ ImageFoundNotValid
    /\ ret.env.details = "RC_E_WRONG_FW_IMAGE"
    /\ upd.unReturnCode = "RC_E_WRONG_FW_IMAGE"
    /\ upd.unNewFirmwareValid = "GENERIC_TRISTATE_STATE_NO"

\* The prepare phase of the run called PrepareTPM12PhysicalPresence
RanPhysicalPresence ==
    /\ ret.fn = "PrepareFirmwareUpdate"
    /\ ret.rv = "RC_SUCCESS"
    /\ upd.sTpmState.tpm12
    /\ ~upd.sTpmState.tpm12DeferredPhysicalPresence
    /\ UpdateTypeIs(props, "UPDATE_TYPE_TPM12_DEFERREDPP")

\* How often the last call sent the command
TimesSent(cmd) == Cardinality({i \in DOMAIN ret.cmds : ret.cmds[i] = cmd})

\* C15: the chip error TPM_BAD_PARAMETER of TSC_PhysicalPresence(CMD_ENABLE) is
\* tolerated and PRESENT is sent next; any other failure of CMD_ENABLE, from the
\* chip or from the tool, ends the routine with that value, and neither PRESENT
\* nor SetCapability is sent
C15_EnableBadParameterTolerated ==
    RanPhysicalPresence =>
        /\ ret.cmds[1] = "TSC_PhysicalPresence(CMD_ENABLE)"
        /\ ret.env.pp.enable \in {"RC_SUCCESS", "TPM_BAD_PARAMETER|RC_TPM_MASK"} =>
                /\ Len(ret.cmds) >= 2
                /\ ret.cmds[2] = "TSC_PhysicalPresence(PRESENT)"
        /\ ret.env.pp.enable \notin {"RC_SUCCESS", "TPM_BAD_PARAMETER|RC_TPM_MASK"} =>
                /\ upd.unReturnCode = ret.env.pp.enable
                /\ ret.cmds = <<"TSC_PhysicalPresence(CMD_ENABLE)">>

\* CMD_ENABLE failed with the chip's TPM_BAD_PARAMETER and the preparation went
\* on to success
C15_Witness ==
    /\ RanPhysicalPresence
    /\ ret.env.pp.enable = "TPM_BAD_PARAMETER|RC_TPM_MASK"
    /\ Len(ret.cmds) = 3
    /\ upd.unReturnCode = "RC_SUCCESS"

\* TSC_PhysicalPresence(PRESENT) was sent
PresentSent == RanPhysicalPresence /\ TimesSent("TSC_PhysicalPresence(PRESENT)") > 0

\* C16: the chip error TPM_BAD_PARAMETER of TSC_PhysicalPresence(PRESENT) is
\* returned as RC_E_TPM12_DEFERREDPP_REQUIRED and any other error as it is, both
\* without SetCapability; SetCapability is sent exactly once and only after
\* PRESENT succeeded, and the routine returns RC_SUCCESS iff it succeeded
C16_PresentAndSetCapability ==
    /\ PresentSent =>
        /\ ret.env.pp.present = "TPM_BAD_PARAMETER|RC_TPM_MASK" =>
                upd.unReturnCode = "RC_E_TPM12_DEFERREDPP_REQUIRED"
        /\ ret.env.pp.present \notin {"RC_SUCCESS", "TPM_BAD_PARAMETER|RC_TPM_MASK"} =>
                upd.unReturnCode = ret.env.pp.present
        /\ ret.env.pp.present # "RC_SUCCESS" =>
                TimesSent("TPM_SetCapability(STCLEAR_DATA,DEFERREDPHYSICALPRESENCE)") = 0
        /\ ret.env.pp.present = "RC_SUCCESS" =>
                /\ TimesSent("TPM_SetCapability(STCLEAR_DATA,DEFERREDPHYSICALPRESENCE)") = 1
                /\ ret.cmds[Len(ret.cmds)] = "TPM_SetCapability(STCLEAR_DATA,DEFERREDPHYSICALPRESENCE)"
                /\ upd.unReturnCode = ret.env.pp.setcap
    /\ RanPhysicalPresence =>
        /\ TimesSent("TPM_SetCapability(STCLEAR_DATA,DEFERREDPHYSICALPRESENCE)") > 0 =>
                PresentSent /\ ret.env.pp.present = "RC_SUCCESS"
        /\ upd.unReturnCode = "RC_SUCCESS" <=>
                /\ TimesSent("TPM_SetCapability(STCLEAR_DATA,DEFERREDPHYSICALPRESENCE)") > 0
                /\ ret.env.pp.setcap = "RC_SUCCESS"

\* Physical presence is locked: PRESENT failed with the chip's TPM_BAD_PARAMETER
\* and the preparation ended with RC_E_TPM12_DEFERREDPP_REQUIRED
C16_Witness ==
    /\ PresentSent
    /\ ret.env.pp.present = "TPM_BAD_PARAMETER|RC_TPM_MASK"
    /\ upd.unReturnCode = "RC_E_TPM12_DEFERREDPP_REQUIRED"
    /\ Len(ret.cmds) = 2

\* C17: on a TPM1.2 whose state has deferred physical presence set, with update
\* type tpm12-PP, PrepareFirmwareUpdate sends no TSC_PhysicalPresence and no
\* SetCapability and reports envelope and inner RC_SUCCESS
C17_DeferredPhysicalPresenceAlreadySet ==
    (/\ ret.fn = "PrepareFirmwareUpdate"
     /\ upd.sTpmState.tpm12
     /\ upd.sTpmState.tpm12DeferredPhysicalPresence
     /\ UpdateTypeIs(props, "UPDATE_TYPE_TPM12_DEFERREDPP"))
    => /\ TimesSent("TSC_PhysicalPresence(CMD_ENABLE)") = 0
       /\ TimesSent("TSC_PhysicalPresence(PRESENT)") = 0
       /\ TimesSent("TPM_SetCapability(STCLEAR_DATA,DEFERREDPHYSICALPRESENCE)") = 0
       /\ ret.cmds = <<>>
       /\ ret.rv = "RC_SUCCESS"
       /\ upd.unReturnCode = "RC_SUCCESS"
       /\ upd.unSubType = "STRUCT_SUBTYPE_PREPARE"

\* The prepare phase of a tpm12-PP update ran on a chip with deferred physical
\* presence set
C17_Witness ==
    /\ ret.fn = "PrepareFirmwareUpdate"
    /\ upd.sTpmState.tpm12
    /\ upd.sTpmState.tpm12DeferredPhysicalPresence
    /\ UpdateTypeIs(props, "UPDATE_TYPE_TPM12_DEFERREDPP")
    /\ upd.unSubType = "STRUCT_SUBTYPE_PREPARE"
    /\ pc = "update"

\* The prepare phase of the run called PrepareTPM12Ownership
RanOwnership ==
    /\ ret.fn = "PrepareFirmwareUpdate"
    /\ ret.rv = "RC_SUCCESS"
    /\ upd.sTpmState.tpm12
    /\ UpdateTypeIs(props, "UPDATE_TYPE_TPM12_TAKEOWNERSHIP")

\* The return value of the step that ended the routine: the first one that failed,
\* or the last one
EndingStep(own) ==
    IF own.ek # "RC_SUCCESS" THEN own.ek
    ELSE IF own.enc1 # "RC_SUCCESS" THEN own.enc1
    ELSE IF own.enc2 # "RC_SUCCESS" THEN own.enc2
    ELSE IF own.oiap # "RC_SUCCESS" THEN own.oiap
    ELSE own.take

\* C18: PrepareTPM12Ownership returns RC_E_TPM12_DISABLED_DEACTIVATED whenever the
\* step that ended it returned the chip's TPM_DEACTIVATED or TPM_DISABLED; every
\* other value is returned as it is, and a value of the tool is never taken for
\* one of the two chip codes
C18_DisabledDeactivatedMapped ==
    RanOwnership =>
        LET rc == EndingStep(ret.env.own) IN
        /\ rc \in {"TPM_DEACTIVATED|RC_TPM_MASK", "TPM_DISABLED|RC_TPM_MASK"} =>
                upd.unReturnCode = "RC_E_TPM12_DISABLED_DEACTIVATED"
        /\ rc \notin {"TPM_DEACTIVATED|RC_TPM_MASK", "TPM_DISABLED|RC_TPM_MASK"} =>
                upd.unReturnCode = rc
        /\ rc \in DOMAIN ToolValue => upd.unReturnCode = rc

\* TSS_TPM_OIAP failed on a disabled chip and the preparation reported
\* RC_E_TPM12_DISABLED_DEACTIVATED
C18_Witness ==
    /\ RanOwnership
    /\ ret.env.own.ek = "RC_SUCCESS"
    /\ ret.env.own.oiap = "TPM_DISABLED|RC_TPM_MASK"
    /\ upd.unReturnCode = "RC_E_TPM12_DISABLED_DEACTIVATED"

\* A step that calls ProceedUpdateConfig in the config-file flow, on a chip that is
\* not in boot-loader mode, with a config file that parses
SelectCall ==
    /\ ret'.fn = "ProceedUpdateConfig"
    /\ ~upd.sTpmState.bootLoader
    /\ PropertyStorage_Exists(props, "PROPERTY_CONFIG_FILE_PATH")
    /\ ret'.env.cfg # <<>>
    /\ Config_ParseCustom(props, ret'.env.cfg).rc = "RC_SUCCESS"

\* The version name starts with one of the digits and a dot
StartsWith(name, digits) == Len(name) >= 2 /\ name[1] \in digits /\ name[2] = "."

\* The firmware folder the config file of the call names
TargetFirmwareFolder ==
    LET cfg == ret'.env.cfg
        i == CHOOSE i \in DOMAIN cfg : cfg[i].section = <<"FirmwareFolder">> /\ cfg[i].key = <<"path">> IN
    cfg[i].value

\* The value the config file of the call gives for the key of section TargetFirmware
TargetFirmware(key) ==
    LET cfg == ret'.env.cfg
        i == CHOOSE i \in DOMAIN cfg : cfg[i].section = <<"TargetFirmware">> /\ cfg[i].key = <<key>> IN
    cfg[i].value

\* The target version the claim names for the chip's version name (<<>>: none)
TargetVersionFor(name) ==
    IF StartsWith(name, {"6", "7"}) THEN TargetFirmware("version_SLB9670")
    ELSE IF StartsWith(name, {"4", "5"}) THEN TargetFirmware("version_SLB966x")
    ELSE <<>>

\* The call added no firmware path and left the update type as it was
NoPathNoUpdateType ==
    /\ ~PropertyStorage_Exists(props', "PROPERTY_FIRMWARE_PATH")
    /\ props'["PROPERTY_UPDATE_TYPE"] = props["PROPERTY_UPDATE_TYPE"]
    /\ ~s_fUpdateThroughConfigFile'

\* C19: in the config-file flow on a chip not in boot-loader mode whose version
\* equals the target version selected for it, ProceedUpdateConfig returns envelope
\* RC_SUCCESS, inner RC_E_ALREADY_UP_TO_DATE and unNewFirmwareValid NO, composes no
\* image name, loads no image, sets no firmware path and keeps the update type
C19_AlreadyUpToDate ==
    [][(SelectCall /\ upd.wszVersionName # <<>>
            /\ TargetVersionFor(upd.wszVersionName) = upd.wszVersionName) =>
        /\ ret'.rv = "RC_SUCCESS"
        /\ upd'.unReturnCode = "RC_E_ALREADY_UP_TO_DATE"
        /\ upd'.unNewFirmwareValid = "GENERIC_TRISTATE_STATE_NO"
        /\ upd'.wszUsedFirmwareImage = <<>>
        /\ upd'.rgbFirmwareImage = <<>>
        /\ ~ret'.imageChecked
        /\ NoPathNoUpdateType]_vars

\* An SPI chip at the target version of its bus was found up to date
C19_Witness ==
    /\ ret.fn = "ProceedUpdateConfig"
    /\ ~upd.sTpmState.bootLoader
    /\ upd.wszVersionName = <<"7", ".", "1">>
    /\ upd.unReturnCode = "RC_E_ALREADY_UP_TO_DATE"
    /\ upd.unNewFirmwareValid = "GENERIC_TRISTATE_STATE_NO"
    /\ ret.rv = "RC_SUCCESS"

\* The image name ends with the target version and .BIN
NamesTarget(wszUsedFirmwareImage, wszTargetVersion) ==
    LET n == Len(wszUsedFirmwareImage)
        t == Len(wszTargetVersion) IN
    /\ n > t
    /\ wszUsedFirmwareImage[n] = ".BIN"
    /\ SubSeq(wszUsedFirmwareImage, n - t, n - 1) = wszTargetVersion

\* C20: in the config-file flow on a chip not in boot-loader mode the target
\* version is the value of version_SLB9670 for version names 6.x and 7.x and the
\* value of version_SLB966x for 4.x and 5.x (seen in the up-to-date check and in
\* the image name); for every other version name the flow returns
\* RC_E_UNSUPPORTED_CHIP and sets neither firmware path nor update type
C20_TargetVersionByPrefix ==
    [][SelectCall =>
        LET name == upd.wszVersionName
            target == TargetVersionFor(name) IN
        /\ ~(StartsWith(name, {"6", "7"}) \/ StartsWith(name, {"4", "5"})) =>
                /\ ret'.rv = "RC_E_UNSUPPORTED_CHIP"
                /\ upd'.wszUsedFirmwareImage = <<>>
                /\ NoPathNoUpdateType
        /\ (StartsWith(name, {"6", "7"}) \/ StartsWith(name, {"4", "5"})) =>
                /\ ret'.rv # "RC_E_UNSUPPORTED_CHIP"
                /\ upd'.unReturnCode = "RC_E_ALREADY_UP_TO_DATE" <=> target = name
                /\ upd'.wszUsedFirmwareImage # <<>> => NamesTarget(upd'.wszUsedFirmwareImage, target)
                /\ PropertyStorage_Exists(props', "PROPERTY_FIRMWARE_PATH") =>
                        NamesTarget(props'["PROPERTY_FIRMWARE_PATH"], target)]_vars

\* The image for an SPI chip was selected: its name carries the target version of
\* version_SLB9670
C20_Witness ==
    /\ ret.fn = "ProceedUpdateConfig"
    /\ upd.wszVersionName = <<"6", ".", "0">>
    /\ upd.unReturnCode = "RC_SUCCESS"
    /\ PropertyStorage_Exists(props, "PROPERTY_FIRMWARE_PATH")
    /\ NamesTarget(props["PROPERTY_FIRMWARE_PATH"], <<"7", ".", "1">>)
    /\ s_fUpdateThroughConfigFile

\* The positions of the path separators in the config path
SeparatorsAt(path) == {i \in DOMAIN path : path[i] \in {"/", "\\"}}

\* The config path cut at its last path separator, as claimed: '.' when it has none,
\* '/' when the only separator is the leading one
ConfigDirAsClaimed(path) ==
    LET S == SeparatorsAt(path) IN
    IF S = {} THEN <<".">>
    ELSE IF S = {1} THEN <<"/">>
    ELSE SubSeq(path, 1, (CHOOSE i \in S : \A j \in S : j <= i) - 1)

\* ... and with a leading backslash that is the only separator read as no folder
ConfigDirAsAmended(path) ==
    IF SeparatorsAt(path) = {1} /\ path[1] = "\\" THEN <<".">> ELSE ConfigDirAsClaimed(path)

JoinPath(dir, name) == IF dir = <<"/">> THEN dir \o name ELSE dir \o <<"/">> \o name

\* The image name <srcFamily>_<currentVer>_to_<tgtFamily>_<tgtVer>.BIN
ImageNameAsClaimed(attribs, version, target) ==
    <<IF attribs.tpm12 THEN "TPM12" ELSE "TPM20", "_">> \o version
        \o <<"_to_", IF StartsWith(target, {"4", "6"}) THEN "TPM12" ELSE "TPM20", "_">>
        \o target \o <<".BIN">>

\* The image path for the directory of the config file, the firmware folder and the name
ImagePathAsClaimed(dir, folder, name) ==
    IF folder \in {<<".">>, <<".", "/">>, <<".", "\\">>} THEN JoinPath(dir, name)
    ELSE JoinPath(JoinPath(dir, folder), name)

\* The call reaches the image lookup: a supported chip of a known family that is not
\* at the target version
LookupCall ==
    /\ SelectCall
    /\ upd.sTpmState.tpm12 \/ upd.sTpmState.tpm20
    /\ TargetVersionFor(upd.wszVersionName) # <<>>
    /\ TargetVersionFor(upd.wszVersionName) # upd.wszVersionName

\* What the claim says of a call, for a reading ConfigDir of the config directory
ImageLookup(ConfigDir(_)) ==
    /\ LookupCall =>
        LET target == TargetVersionFor(upd.wszVersionName)
            name == ImageNameAsClaimed(upd.sTpmState, upd.wszVersionName, target)
            path == ImagePathAsClaimed(ConfigDir(props["PROPERTY_CONFIG_FILE_PATH"]),
                                       TargetFirmwareFolder, name)
            exists == FileIO_Exists(ret'.env.disk, path) IN
        IF ~StartsWith(target, {"4", "5", "6", "7"})
        THEN ret'.rv = "RC_E_INVALID_SETTING" /\ upd'.wszUsedFirmwareImage = <<>> /\ NoPathNoUpdateType
        ELSE /\ upd'.wszUsedFirmwareImage = name
             /\ ret'.rv = "RC_E_FIRMWARE_UPDATE_NOT_FOUND" <=> ~exists
             /\ ~exists => NoPathNoUpdateType
             /\ exists => /\ ret'.rv = "RC_SUCCESS"
                          /\ props'["PROPERTY_FIRMWARE_PATH"] = path
    /\ (ret'.fn = "ProceedUpdateConfig" /\ ret'.rv = "RC_E_FIRMWARE_UPDATE_NOT_FOUND") => LookupCall

\* C21 as stated: the image looked up is <config-dir>/<firmware-folder>/<name>, with
\* config-dir '/' whenever the only separator of the config path is its first character
C21_ImagePath == [][ImageLookup(ConfigDirAsClaimed)]_vars

\* C21: in the config-file flow the image looked up is
\* <config-dir>/<firmware-folder>/<srcFamily>_<currentVer>_to_<tgtFamily>_<tgtVer>.BIN;
\* config-dir is the config path cut at its last '/' or '\', '.' when it has none or
\* only a leading '\', '/' when the only separator is a leading '/'; the folder is
\* omitted when it is '.', './' or '.\'; tgtFamily is TPM12 for targets 4.x and 6.x,
\* TPM20 for 5.x and 7.x, any other target gives RC_E_INVALID_SETTING; the flow returns
\* RC_E_FIRMWARE_UPDATE_NOT_FOUND iff no file exists at that path, and then sets
\* neither the firmware path nor the update type
C21_ImagePathOfConfig == [][ImageLookup(ConfigDirAsAmended)]_vars

\* The config file in the root folder names the current folder: the image was found
\* in the root folder
C21_Witness ==
    /\ ret.fn = "ProceedUpdateConfig"
    /\ ret.rv = "RC_SUCCESS"
    /\ props["PROPERTY_CONFIG_FILE_PATH"] = <<"/", "c">>
    /\ PropertyStorage_Exists(props, "PROPERTY_FIRMWARE_PATH")
    /\ props["PROPERTY_FIRMWARE_PATH"] =
            <<"/", "TPM12", "_", "4", ".", "0", "_to_", "TPM20", "_", "5", ".", "0", ".BIN">>

\* The name without its case is one of the names
Named(str, names) == Len(str) = 1 /\ CaseFold(str[1]) \in {CaseFold(n) : n \in names}

\* The property that belongs to the section and key of the triple ("none": the
\* section or the key is not recognized)
PropertyOf(t) ==
    IF Named(t.section, {"UpdateType"}) /\ Named(t.key, {"tpm12"}) THEN "PROPERTY_CONFIG_FILE_UPDATE_TYPE12"
    ELSE IF Named(t.section, {"UpdateType"}) /\ Named(t.key, {"tpm20"}) THEN "PROPERTY_CONFIG_FILE_UPDATE_TYPE20"
    ELSE IF Named(t.section, {"TargetFirmware"}) /\ Named(t.key, {"version_SLB966x"})
    THEN "PROPERTY_CONFIG_TARGET_FIRMWARE_VERSION_LPC"
    ELSE IF Named(t.section, {"TargetFirmware"}) /\ Named(t.key, {"version_SLB9670"})
    THEN "PROPERTY_CONFIG_TARGET_FIRMWARE_VERSION_SPI"
    ELSE IF Named(t.section, {"FirmwareFolder"}) /\ Named(t.key, {"path"})
    THEN "PROPERTY_CONFIG_FIRMWARE_FOLDER_PATH"
    ELSE "none"

\* The five mandatory properties
FiveMandatory ==
    {"PROPERTY_CONFIG_FILE_UPDATE_TYPE12", "PROPERTY_CONFIG_FILE_UPDATE_TYPE20",
     "PROPERTY_CONFIG_TARGET_FIRMWARE_VERSION_LPC", "PROPERTY_CONFIG_TARGET_FIRMWARE_VERSION_SPI",
     "PROPERTY_CONFIG_FIRMWARE_FOLDER_PATH"}

\* C22: on every property bag the parser can build, a triple whose section or key
\* is not recognized makes Parse return RC_SUCCESS and add nothing; FinalizeParsing
\* returns an incoming code other than RC_SUCCESS unchanged, otherwise
\* RC_E_INVALID_SETTING iff one of the five mandatory properties is absent, and
\* RC_SUCCESS when all five are present
C22_UnknownIgnoredMandatoryChecked ==
    /\ \A t \in ParseInputs :
        PropertyOf(t) = "none" => Parse(props, t) = [rc |-> "RC_SUCCESS", props |-> props]
    /\ \A code \in FinalizeCodes :
        FinalizeParsing(code, props) =
            IF code # "RC_SUCCESS" THEN code
            ELSE IF FiveMandatory \subseteq DOMAIN props THEN "RC_SUCCESS"
            ELSE "RC_E_INVALID_SETTING"
    /\ ret.fn = "FinalizeParsing" =>
            (ret.rv = "RC_SUCCESS" => FiveMandatory \subseteq DOMAIN props)

\* All five mandatory properties were parsed and FinalizeParsing returned RC_SUCCESS
C22_Witness ==
    /\ ret.fn = "FinalizeParsing"
    /\ ret.rv = "RC_SUCCESS"
    /\ FiveMandatory \subseteq DOMAIN props

\* The value is one of the update types of the key
ValidUpdateType(t) ==
    IF Named(t.key, {"tpm12"}) THEN Named(t.value, {"tpm12-PP", "tpm12-takeownership"})
    ELSE Named(t.value, {"tpm20-emptyplatformauth"})

\* C23: on every property bag the parser can build and for every triple, Parse
\* changes no property, adds at most one, namely the one that belongs to the
\* section and key of the triple (so a key of one section adds nothing under another
\* section); in section UpdateType a value that is not an update type of the key
\* yields RC_E_INVALID_SETTING and adds nothing
C23_ExclusiveDispatch ==
    \A t \in ParseInputs :
        LET r == Parse(props, t)
            added == DOMAIN r.props \ DOMAIN props IN
        /\ \A k \in DOMAIN props : k \in DOMAIN r.props /\ r.props[k] = props[k]
        /\ Cardinality(added) <= 1
        /\ added \subseteq {PropertyOf(t)}
        /\ (PropertyOf(t) # "none" /\ PropertyOf(t) \notin DOMAIN props
                /\ (Named(t.section, {"UpdateType"}) => ValidUpdateType(t)))
            => r.rc = "RC_SUCCESS" /\ added = {PropertyOf(t)}
        /\ (Named(t.section, {"UpdateType"}) /\ PropertyOf(t) # "none" /\ ~ValidUpdateType(t))
            => r.rc = "RC_E_INVALID_SETTING" /\ added = {}

\* A triple was parsed into a bag that holds TargetFirmware properties but no update
\* type: the keys of section UpdateType were not added under another section
C23_Witness ==
    /\ ret.fn = "Parse"
    /\ ret.rv = "RC_SUCCESS"
    /\ "PROPERTY_CONFIG_TARGET_FIRMWARE_VERSION_LPC" \in DOMAIN props
    /\ "PROPERTY_CONFIG_FIRMWARE_FOLDER_PATH" \in DOMAIN props
    /\ "PROPERTY_CONFIG_FILE_UPDATE_TYPE12" \notin DOMAIN props

\* The calls the function made, as a set
Called == {ret'.env.calls[i] : i \in DOMAIN ret'.env.calls}

BackendInitialize == {"DeviceAccessTpmDriver_Initialize", "DeviceAccess_Initialize"}
BackendTransmit == {"DeviceAccessTpmDriver_Transmit", "TIS_TransceiveLPC"}

\* C24: with either access mode configured and for any sequence of Connect,
\* Transmit and Disconnect: a Connect while connected returns RC_E_ALREADY_CONNECTED,
\* calls no backend function and leaves the channel connected; a Transmit (of
\* buffers) or a Disconnect while not connected returns RC_E_NOT_CONNECTED without
\* calling the backend; a Transmit reaches the backend only if a Connect succeeded
\* and Disconnect was not called since
C24_ChannelProtocol ==
    [][HasAccessMode(props) =>
        /\ (ret'.fn = "TPMIO_Connect" /\ tpmio.g_fConnected) =>
                /\ ret'.rv = "RC_E_ALREADY_CONNECTED"
                /\ Called = {}
                /\ tpmio'.g_fConnected /\ tpmio'.backendOpen = tpmio.backendOpen
        /\ (ret'.fn = "TPMIO_Disconnect" /\ ~tpmio.g_fConnected) =>
                ret'.rv = "RC_E_NOT_CONNECTED" /\ Called = {} /\ ~tpmio'.g_fConnected
        /\ (ret'.fn = "TPMIO_Transmit" /\ ~ret'.env.fNull /\ ~tpmio.g_fConnected) =>
                ret'.rv = "RC_E_NOT_CONNECTED" /\ Called = {} /\ ~tpmio'.g_fConnected
        /\ (ret'.fn = "TPMIO_Transmit" /\ Called \cap BackendTransmit # {}) => tpmio.window]_vars

\* A second Connect on the connected channel was refused
C24_Witness ==
    /\ ret.fn = "TPMIO_Connect"
    /\ ret.rv = "RC_E_ALREADY_CONNECTED"
    /\ tpmio.g_fConnected /\ tpmio.window

\* C25: TPMIO_Connect returns RC_SUCCESS and marks the channel connected only after
\* seteuid and then setegid succeeded, in both access modes; if either fails, Connect
\* returns RC_E_INTERNAL, the channel stays not connected and a Transmit after it
\* does not reach the backend
C25_PrivilegesDropped ==
    [][ret'.fn = "TPMIO_Connect" =>
        /\ (ret'.rv = "RC_SUCCESS" \/ (tpmio'.g_fConnected /\ ~tpmio.g_fConnected)) =>
                /\ ret'.rv = "RC_SUCCESS" /\ tpmio'.g_fConnected
                /\ Len(ret'.env.calls) >= 2
                /\ SubSeq(ret'.env.calls, Len(ret'.env.calls) - 1, Len(ret'.env.calls)) = <<"seteuid", "setegid">>
                /\ ret'.env.seteuid /\ ret'.env.setegid
                /\ tpmio'.euidDropped /\ tpmio'.egidDropped
        /\ (("seteuid" \in Called /\ ~ret'.env.seteuid) \/ ("setegid" \in Called /\ ~ret'.env.setegid)) =>
                /\ ret'.rv = "RC_E_INTERNAL"
                /\ ~tpmio'.g_fConnected
                /\ \A transmit \in BackendErrors :
                        LET r == TPMIO_Transmit(props', tpmio', FALSE, transmit) IN
                        r.rc = "RC_E_NOT_CONNECTED" /\ r.calls = <<>>
        /\ ("setegid" \in Called) => ret'.env.seteuid]_vars

\* The memory-mapped channel was connected after both drops
C25_Witness ==
    /\ ret.fn = "TPMIO_Connect"
    /\ ret.rv = "RC_SUCCESS"
    /\ props["PROPERTY_TPM_DEVICE_ACCESS_MODE"] = "TPM_DEVICE_ACCESS_MEMORY_BASED"
    /\ tpmio.g_fConnected /\ tpmio.euidDropped /\ tpmio.egidDropped

\* C26: with the driver access mode, TPMIO_ReadRegister (with an output byte) and
\* TPMIO_WriteRegister return RC_E_NOT_SUPPORTED_FEATURE and access no register,
\* ReadRegister setting the output byte to 0; with an access mode that is neither
\* memory-mapped nor driver they return RC_E_INTERNAL
C26_RegisterAccess ==
    [][(ret'.fn \in {"TPMIO_ReadRegister", "TPMIO_WriteRegister"} /\ ~ret'.env.fNull) =>
        /\ (PropertyStorage_Exists(props, "PROPERTY_TPM_DEVICE_ACCESS_MODE")
                /\ props["PROPERTY_TPM_DEVICE_ACCESS_MODE"] = "TPM_DEVICE_ACCESS_DRIVER") =>
                /\ ret'.rv = "RC_E_NOT_SUPPORTED_FEATURE"
                /\ Called = {}
                /\ ret'.fn = "TPMIO_ReadRegister" => ret'.env.value = 0
        /\ (~PropertyStorage_Exists(props, "PROPERTY_TPM_DEVICE_ACCESS_MODE")
                \/ props["PROPERTY_TPM_DEVICE_ACCESS_MODE"]
                        \notin {"TPM_DEVICE_ACCESS_DRIVER", "TPM_DEVICE_ACCESS_MEMORY_BASED"}) =>
                ret'.rv = "RC_E_INTERNAL" /\ Called = {}]_vars

\* A register read in driver mode was refused with the output byte 0
C26_Witness ==
    /\ ret.fn = "TPMIO_ReadRegister"
    /\ ret.rv = "RC_E_NOT_SUPPORTED_FEATURE"
    /\ ret.env.value = 0
    /\ props["PROPERTY_TPM_DEVICE_ACCESS_MODE"] = "TPM_DEVICE_ACCESS_DRIVER"

\* A command function was called, and it got an answer from the channel
TssCalled == ret.fn \in {"TSS_TPM2_Startup", "TSS_TPM2_GetCapability", "TSS_TPM2_GetTestResult",
                         "TSS_TPM2_StartAuthSession", "TSS_TPM2_HierarchyChangeAuth"}
Answered == TssCalled /\ Len(ret.env.did.transmitted) = 1 /\ ret.env.transmit.rc = "RC_SUCCESS"

\* The response code in the header of the answer: octets 7 to 10, most significant first
HeaderCode ==
    LET rgb == ret.env.transmit.rgb IN <<rgb[7] * 256 + rgb[8], rgb[9] * 256 + rgb[10]>>
CarriesChipError == Answered /\ Len(ret.env.transmit.rgb) >= 10 /\ HeaderCode # <<0, 0>>

\* A number in the range of the tool's own return values (0xE0295nnn)
IsEnvelopeValue(v) == (v[1] = 57385 /\ v[2] \div 4096 = 5) \/ \E n \in DOMAIN ToolValue : v = ToolValue[n]

RECURSIVE Concat(_)
Concat(fields) == IF fields = <<>> THEN <<>> ELSE Head(fields) \o Concat(Tail(fields))

\* The 32 bit number at an offset of a request, most significant octet first
NumberAt(rgb, offset) ==
    ((rgb[offset + 1] * 256 + rgb[offset + 2]) * 256 + rgb[offset + 3]) * 256 + rgb[offset + 4]

\* What a request is to hold behind tag and size: the command code and the parameters;
\* in TPM2_HierarchyChangeAuth the session block follows a field with its length
RequestBody ==
    LET p == ret.env.parameters IN
    UINT32_Octets(ret.env.commandCode)
        \o (IF ret.fn = "TSS_TPM2_HierarchyChangeAuth"
            THEN p[1] \o UINT32_Octets(<<0, Len(p[2])>>) \o p[2] \o p[3]
            ELSE Concat(p))
MarshalledSize == 6 + Len(RequestBody)
Transmitted == ret.env.did.transmitted

\* C28: a command function hands a request to the channel exactly when every marshal
\* step succeeded (the request fits the buffer), and then once; the request is the tag,
\* the number of octets marshalled as a 32 bit number at offset 2, the command code and
\* the parameters; exactly that many octets are handed over; in
\* TPM2_HierarchyChangeAuth the field before the session block holds the block's length.
C28_RequestLength ==
    TssCalled =>
        /\ Len(Transmitted) <= 1
        /\ Len(Transmitted) = 1 <=> MarshalledSize <= MAX_COMMAND_SIZE
        /\ Len(Transmitted) = 0 => ret.rv = "InsufficientBuffer"
        /\ Len(Transmitted) = 1 =>
            /\ Len(Transmitted[1]) = MarshalledSize
            /\ NumberAt(Transmitted[1], 2) = MarshalledSize
            /\ SubSeq(Transmitted[1], 1, 2) = UINT16_Octets(ret.env.tag)
            /\ SubSeq(Transmitted[1], 7, MarshalledSize) = RequestBody
            /\ ret.fn = "TSS_TPM2_HierarchyChangeAuth" =>
                   NumberAt(Transmitted[1], 14) = Len(ret.env.parameters[2])

\* TPM2_HierarchyChangeAuth sent with a nonce in its session block and a new
\* authorization value: the two length fields hold the sizes of what was marshalled
C28_Witness ==
    /\ ret.fn = "TSS_TPM2_HierarchyChangeAuth"
    /\ Len(Transmitted) = 1
    /\ Len(ret.env.parameters[2]) = 11
    /\ NumberAt(Transmitted[1], 14) = 11
    /\ NumberAt(Transmitted[1], 2) = 32
    /\ Len(Transmitted[1]) = 32

\* The answer of the channel, the size its header declares, and the size an inner
\* sized field declares (the buffer of TPM2_GetTestResult, the nonce of
\* TPM2_StartAuthSession)
Received == ret.env.transmit.rgb
DeclaredSize == NumberAt(Received, 2)
InnerSizeOffset == IF ret.fn = "TSS_TPM2_StartAuthSession" THEN 14 ELSE 10
HasInnerSize ==
    /\ ret.fn \in {"TSS_TPM2_GetTestResult", "TSS_TPM2_StartAuthSession"}
    /\ Len(Received) >= InnerSizeOffset + 2
    /\ HeaderCode = <<0, 0>>
InnerSize == Received[InnerSizeOffset + 1] * 256 + Received[InnerSizeOffset + 2]

\* C29: a command function returns MalformedResponse when the response is too short
\* for its header, when the size declared in the header is above the number of octets
\* the channel reported, and when the size declared in an inner sized field is above
\* the octets that follow it; it never consumes more octets than the channel reported.
C29_MalformedResponse ==
    Answered =>
        /\ ret.env.did.read <= Len(Received)
        /\ Len(Received) < 10 => ret.rv = "MalformedResponse"
        /\ (Len(Received) >= 10 /\ DeclaredSize > Len(Received)) => ret.rv = "MalformedResponse"
        /\ (HasInnerSize /\ InnerSize > Len(Received) - (InnerSizeOffset + 2)) =>
               ret.rv = "MalformedResponse"

\* C30: IsFirmwareUpdatable, PrepareFirmwareUpdate, UpdateFirmware,
\* ProceedUpdateConfig and Tpm12ClearOwnership_Execute, called with a NULL record,
\* return RC_E_BAD_PARAMETER, access no field through the pointer and send no TPM
\* command.
C30_NullRecordRejected ==
    ret.fn \in {"IsFirmwareUpdatable", "PrepareFirmwareUpdate", "UpdateFirmware",
                "ProceedUpdateConfig", "Tpm12ClearOwnership_Execute"} =>
        /\ ret.rv = "RC_E_BAD_PARAMETER"
        /\ ret.env.accesses = <<>>
        /\ ret.cmds = <<>>

----------------------------------------------------------------------------
(* The clear-ownership flow *)

\* A call of Tpm12ClearOwnership_Execute in which the state probe succeeded
ClearCall ==
    /\ ret.fn = "Tpm12ClearOwnership_Execute"
    /\ ret.env.steps.calc = "RC_SUCCESS"

\* The tests on the probed state, in order, and the outcome of each
ModeTests(attribs) ==
    <<attribs.tpm12 /\ attribs.tpm12owner, attribs.tpm20, attribs.tpm12 /\ ~attribs.tpm12owner,
      ~attribs.infineon, TRUE>>

ModeOutcomes ==
    <<"proceed", "RC_E_TPM_NOT_SUPPORTED_FEATURE", "RC_E_TPM12_NO_OWNER", "RC_E_NO_IFX_TPM",
      "RC_E_UNSUPPORTED_CHIP">>

FirstMatch(tests) == CHOOSE i \in DOMAIN tests : tests[i] /\ \A j \in 1..(i - 1) : ~tests[j]

ModeOutcome(attribs) == ModeOutcomes[FirstMatch(ModeTests(attribs))]

C32_OwnerClearLast ==
    ret.fn = "Tpm12ClearOwnership_Execute" =>
        /\ "TPM_OwnerClear" \in Sent(ret.cmds) =>
            /\ ret.env.calls = <<"FirmwareUpdate_CalculateState", "FirmwareUpdate_CheckOwnerAuthorization",
                                 "TSS_TPM_OIAP", "TSS_TPM_OwnerClear">>
            /\ ret.cmds = <<"TPM_OIAP", "TPM_OwnerClear">>
            /\ ret.env.steps.calc = "RC_SUCCESS"
            /\ upd.sTpmState.tpm12 /\ upd.sTpmState.tpm12owner
            /\ ret.env.steps.check = "RC_SUCCESS"
            /\ ret.env.steps.oiap = "RC_SUCCESS"
            /\ ret.opened # {}
        /\ (/\ Len(ret.env.calls) >= 2
            /\ ret.env.steps.check # "RC_SUCCESS") =>
            /\ clear.unReturnCode = IF ret.env.steps.check = "TPM_AUTHFAIL|RC_TPM_MASK"
                                    THEN "RC_E_TPM12_INVALID_OWNERAUTH"
                                    ELSE ret.env.steps.check
            /\ ret.rv = "RC_SUCCESS"
            /\ ret.env.calls = <<"FirmwareUpdate_CalculateState", "FirmwareUpdate_CheckOwnerAuthorization">>
            /\ ret.cmds = <<>>
            /\ chip.sessions = {}

\* The owner authorization of an owned TPM1.2 was not the built-in one
C32_Witness ==
    /\ ret.fn = "Tpm12ClearOwnership_Execute"
    /\ upd.sTpmState.tpm12 /\ upd.sTpmState.tpm12owner
    /\ ret.env.steps.check = "TPM_AUTHFAIL|RC_TPM_MASK"
    /\ clear.unReturnCode = "RC_E_TPM12_INVALID_OWNERAUTH"

\* The steps of PrepareTPM12Ownership all succeeded
OwnershipStepsSucceeded(own) ==
    /\ own.ek = "RC_SUCCESS"
    /\ own.enc1 = "RC_SUCCESS"
    /\ own.enc2 = "RC_SUCCESS"
    /\ own.oiap = "RC_SUCCESS"
    /\ own.take = "RC_SUCCESS"

\* C33: PrepareTPM12Ownership returns RC_SUCCESS only if TSS_TPM_ReadPubEK, both
\* Crypt_EncryptRSA, TSS_TPM_OIAP and TSS_TPM_TakeOwnership succeeded and the
\* storage root key returned has a public key length other than 0; when
\* TSS_TPM_TakeOwnership succeeds with key length 0 the routine does not return
\* RC_SUCCESS
C33_SuccessNeedsStorageRootKey ==
    RanOwnership =>
        /\ upd.unReturnCode = "RC_SUCCESS" =>
            /\ OwnershipStepsSucceeded(ret.env.own)
            /\ ret.env.own.keyLength # 0
        /\ (OwnershipStepsSucceeded(ret.env.own) /\ ret.env.own.keyLength = 0) =>
            upd.unReturnCode # "RC_SUCCESS"

\* C34: a dry-run UpdateFirmware changes no persistent state: the run data file is
\* after the call as it was before; when it existed before the call (a dry run
\* started on a chip in boot-loader mode after an interrupted update) it still
\* exists with the same content
C34_DryRunKeepsMarker ==
    [][(pc = "update" /\ ret'.fn = "UpdateFirmware" /\ DryRun(props)) => rundata' = rundata]_vars

ConfigEntry(cfg, section, key) ==
    cfg[CHOOSE i \in DOMAIN cfg : cfg[i].section = <<section>> /\ cfg[i].key = <<key>>]

\* The update type a value of section UpdateType names
UpdateTypeNamed(value) ==
    CASE value \in {<<"tpm12-PP">>, <<"TPM12-PP">>} -> "UPDATE_TYPE_TPM12_DEFERREDPP"
      [] value \in {<<"tpm12-takeownership">>, <<"TPM12-TAKEOWNERSHIP">>} -> "UPDATE_TYPE_TPM12_TAKEOWNERSHIP"
      [] value \in {<<"tpm20-emptyplatformauth">>} -> "UPDATE_TYPE_TPM20_EMPTYPLATFORMAUTH"
      [] OTHER -> "UPDATE_TYPE_NONE"

\* The authorization routine that sent the commands: each routine starts with a
\* command of its own
RoutineOf(cmds) ==
    IF cmds = <<>> THEN "none"
    ELSE CASE cmds[1] = "TSC_PhysicalPresence(CMD_ENABLE)" -> "PrepareTPM12PhysicalPresence"
           [] cmds[1] = "TPM_ReadPubEK" -> "PrepareTPM12Ownership"
           [] cmds[1] = "TPM2_StartAuthSession" -> "PrepareTPM20Policy"
           [] OTHER -> "other"

\* The authorization routine of an update type on a chip
RoutineFor(attribs, unUpdateType) ==
    CASE unUpdateType = "UPDATE_TYPE_TPM12_DEFERREDPP" ->
            IF attribs.tpm12DeferredPhysicalPresence THEN "none" ELSE "PrepareTPM12PhysicalPresence"
      [] unUpdateType = "UPDATE_TYPE_TPM12_TAKEOWNERSHIP" -> "PrepareTPM12Ownership"
      [] unUpdateType = "UPDATE_TYPE_TPM20_EMPTYPLATFORMAUTH" -> "PrepareTPM20Policy"
      [] OTHER -> "other"

\* The key of section UpdateType for the chip
UpdateTypeKey(attribs) == IF attribs.tpm12 THEN "tpm12" ELSE "tpm20"
ConfigFileUpdateType(attribs) ==
    IF attribs.tpm12 THEN "PROPERTY_CONFIG_FILE_UPDATE_TYPE12" ELSE "PROPERTY_CONFIG_FILE_UPDATE_TYPE20"

\* C36: after ProceedUpdateConfig succeeded with inner RC_SUCCESS on a chip that
\* is not in boot-loader mode, PROPERTY_UPDATE_TYPE holds the update type that the
\* config file names for key tpm12 of section UpdateType when the chip is a
\* TPM1.2, and for key tpm20 otherwise; the IsFirmwareUpdatable that follows does
\* not report RC_E_INVALID_UPDATE_OPTION, and the PrepareFirmwareUpdate that follows
\* runs the authorization routine of that update type
C36_UpdateTypeOfConfigFile ==
    /\ (/\ ret.fn = "ProceedUpdateConfig"
        /\ ~upd.sTpmState.bootLoader
        /\ ret.rv = "RC_SUCCESS"
        /\ upd.unReturnCode = "RC_SUCCESS")
        => LET named == UpdateTypeNamed(ConfigEntry(ret.env.cfg, "UpdateType",
                                                    UpdateTypeKey(upd.sTpmState)).value) IN
           /\ named # "UPDATE_TYPE_NONE"
           /\ props["PROPERTY_UPDATE_TYPE"] = named
           /\ props[ConfigFileUpdateType(upd.sTpmState)] = named
           /\ s_fUpdateThroughConfigFile
    /\ (ret.fn = "IsFirmwareUpdatable" /\ s_fUpdateThroughConfigFile)
        => /\ upd.unReturnCode # "RC_E_INVALID_UPDATE_OPTION"
           /\ props["PROPERTY_UPDATE_TYPE"] = props[ConfigFileUpdateType(upd.sTpmState)]
    /\ (ret.fn = "PrepareFirmwareUpdate" /\ s_fUpdateThroughConfigFile)
        => /\ ret.rv = "RC_SUCCESS"
           /\ props["PROPERTY_UPDATE_TYPE"] = props[ConfigFileUpdateType(upd.sTpmState)]
           /\ RoutineOf(ret.cmds) = RoutineFor(upd.sTpmState, props[ConfigFileUpdateType(upd.sTpmState)])

\* The config file named tpm12-takeownership and the preparation of a TPM1.2 ran
\* the ownership routine
C36_Witness ==
    /\ ret.fn = "PrepareFirmwareUpdate"
    /\ s_fUpdateThroughConfigFile
    /\ upd.sTpmState.tpm12
    /\ props["PROPERTY_CONFIG_FILE_UPDATE_TYPE12"] = "UPDATE_TYPE_TPM12_TAKEOWNERSHIP"
    /\ "TPM_TakeOwnership" \in Sent(ret.cmds)

\* The folder of a path: the part before its last separator
FolderOf(path) ==
    LET k == CHOOSE i \in DOMAIN path :
                /\ path[i] \in {"\\", "/"}
                /\ \A j \in (i + 1)..Len(path) : path[j] \notin {"\\", "/"} IN
    IF k = 1 THEN <<path[1]>> ELSE SubSeq(path, 1, k - 1)

\* The path names a file in one of the folders of the disk that hold images
OnDisk(disk, path) ==
    /\ \E i \in DOMAIN path : path[i] \in {"\\", "/"}
    /\ path[Len(path)] \notin {"\\", "/"}
    /\ FolderOf(path) \in disk

\* C37: whenever ProceedUpdateConfig returns envelope RC_SUCCESS with inner code
\* RC_SUCCESS, PROPERTY_FIRMWARE_PATH exists: in boot-loader mode it is the line of
\* the run data file, which is not empty, otherwise the path of an image file
\* that exists; in every other outcome, an existing but empty run data file
\* included, the inner code is not RC_SUCCESS
C37_SuccessHasFirmwarePath ==
    ret.fn = "ProceedUpdateConfig" =>
        /\ (ret.rv = "RC_SUCCESS" /\ upd.unReturnCode = "RC_SUCCESS") =>
            /\ PropertyStorage_Exists(props, "PROPERTY_FIRMWARE_PATH")
            /\ IF upd.sTpmState.bootLoader
               THEN /\ rundata.exists
                    /\ rundata.content # <<>>
                    /\ props["PROPERTY_FIRMWARE_PATH"] = rundata.content
               ELSE OnDisk(ret.env.disk, props["PROPERTY_FIRMWARE_PATH"])
        /\ ret.rv # "RC_SUCCESS" => upd.unReturnCode # "RC_SUCCESS"
        /\ (upd.sTpmState.bootLoader /\ rundata.exists /\ rundata.content = <<>>) =>
            upd.unReturnCode # "RC_SUCCESS"

\* The chip was in boot-loader mode, the run data file was empty, and the call
\* returned envelope RC_SUCCESS with inner code RC_E_FAIL
C37_Witness ==
    /\ ret.fn = "ProceedUpdateConfig"
    /\ upd.sTpmState.bootLoader
    /\ rundata.exists /\ rundata.content = <<>>
    /\ ret.rv = "RC_SUCCESS"
    /\ upd.unReturnCode = "RC_E_FAIL"

\* C38: after any sequence of TPMIO_Connect and TPMIO_Disconnect calls, failing
\* ones included, g_fConnected is TRUE if and only if the device backend is
\* initialized: a failed Connect leaves no backend initialized, and a Disconnect
\* does not clear the flag while the backend is still initialized
C38_ConnectedMirrorsBackend == tpmio.g_fConnected <=> tpmio.backendOpen

\* The triple names a recognized section and key and, in section UpdateType, an
\* update type of the key: Parse adds the property of the triple
AddsProperty(t) ==
    /\ PropertyOf(t) # "none"
    /\ Named(t.section, {"UpdateType"}) => ValidUpdateType(t)

\* C39: on every property bag the parser can build, a triple whose property was
\* stored by an earlier occurrence of the key makes CommandFlow_TpmUpdate_Parse
\* return RC_E_FAIL, and the bag, the value of the first occurrence included, is as
\* it was
C39_SecondOccurrenceRejected ==
    \A t \in ParseInputs :
        (AddsProperty(t) /\ PropertyOf(t) \in DOMAIN props)
            => LET r == Parse(props, t) IN
               /\ r.rc = "RC_E_FAIL"
               /\ r.props = props

\* A triple was parsed whose property was already stored: Parse returned RC_E_FAIL
C39_Witness ==
    /\ ret.fn = "Parse"
    /\ ret.rv = "RC_E_FAIL"
    /\ \E t \in ParseInputs : AddsProperty(t) /\ PropertyOf(t) \in DOMAIN props

====
